---- MODULE Spec2Model ----
(***************************************************************************)
(* A model of three crawler scripts: the contextual internal link gap      *)
(* analyzer (src/scremingfrog/linkgap.js), the semantic analyzer           *)
(* (src/scremingfrog/semantic.js) and the embedding script with its repair *)
(* of stored values and its fallback generator                             *)
(* (src/scremingfrog/vector.js).  Each script has its own variables and    *)
(* its own specifications; the variables of the other scripts are idle.    *)
(*                                                                         *)
(* The link gap script runs top to bottom on one page: analyzeLinksAdvanced walks   *)
(* the page's links, analyzeContentAdvanced measures its content,          *)
(* calculateContextualOpportunity scores the page, and the report record   *)
(* is assembled from the results.                                          *)
(*                                                                         *)
(* Percentages are kept in tenths of a percent (0.8% is 8, 3.0% is 30) and *)
(* every comparison of a ratio is made by cross-multiplication.  The       *)
(* script's double-precision comparisons                                   *)
(*     (contextual / words) * 100  <, >  threshold                         *)
(*     unique / contextual         <     0.7, 0.8                          *)
(*     external / contextual       >     2.0                               *)
(* agree with the exact ones: away from a tie the two sides differ by far  *)
(* more than a rounding error, and on a tie the quotient is the same       *)
(* rational (1/125, 3/100, 7/10, 4/5) whatever the counts, whose double    *)
(* evaluation lands on the threshold's own double.                         *)
(***************************************************************************)
EXTENDS Integers, Sequences, FiniteSets, TLC

VARIABLES
    config,              \* CONFIG, the tunable thresholds at the top of the script
    pc,                  \* position in the script's main execution
    allLinks,            \* the links of the page that forEach has yet to visit
    linkAnalysis,        \* the accumulator of analyzeLinksAdvanced
    linkData,            \* result of analyzeLinksAdvanced, as the script reads it
    contentElement,      \* the element analyzeContentAdvanced measures
    contentData,         \* result of analyzeContentAdvanced
    pageType,            \* result of categorizePageType
    urlDepth,            \* slashes in the URL minus 2
    opportunityAnalysis, \* result of calculateContextualOpportunity
    linkDiversity,       \* result of calculateLinkDiversity
    externalBalance,     \* result of checkExternalLinkBalance
    recommendations,     \* result of generateContextualRecommendations
    contextualLinkData,  \* the report record handed to seoSpider.data
    \* the semantic analysis script (src/scremingfrog/semantic.js)
    seoSpider,           \* whether the crawler's seoSpider object is defined
    location,            \* window.location.href
    document,            \* the text of the page's main content element
    semanticPc,          \* position in the semantic analysis run
    semanticAnalyzer,    \* the fields of the SemanticAIAnalyzer instance
    healthCheck,         \* result of checkOllamaConnection
    pageContent,         \* result of _extractPageContent
    embedding,           \* the embedding of the page
    pending,             \* what the loop in progress has yet to visit
    collected,           \* what the loop in progress has pushed so far
    results,             \* the sections of the analysis computed so far
    ollama,              \* the requests sent to the embedding service
    semanticData,        \* what the run returned or handed to seoSpider.data
    \* calls on one instance of a class of the semantic analysis script
    themeSession,        \* the analyzer of the session: its centroid, its counts
    themeCalls,          \* the calls of _analyzeThemeConsistency in progress
    clusteringEngine,    \* the maps of the SemanticContentClusteringEngine
    clusterCall,         \* the arguments of a cluster assignment
    currentCluster,      \* what the cluster assignment returned
    \* the embedding script (src/scremingfrog/vector.js)
    rawData,             \* the argument of a call of cleanupMalformedData
    cleaned,             \* what that call returned
    fallbackCall,        \* the arguments of the calls of generateSimpleEmbedding
    simpleEmbedding,     \* what the calls returned, in order
    currentEmbedding,    \* window.currentEmbeddingValue
    blogContent,         \* result of extractBlogContent
    apiResponse,         \* the answer of the embedding service to the request
    vectorPc,            \* position in the embedding script
    vectorData           \* what the script handed to seoSpider.data or .error

linkgapVars == <<config, pc, allLinks, linkAnalysis, linkData, contentElement,
                 contentData, pageType, urlDepth,
                 opportunityAnalysis, linkDiversity, externalBalance,
                 recommendations, contextualLinkData>>

semanticVars == <<seoSpider, location, document, semanticPc, semanticAnalyzer,
                  healthCheck, pageContent, embedding, pending, collected,
                  results, ollama, semanticData>>

vectorVars == <<rawData, cleaned, fallbackCall, simpleEmbedding, currentEmbedding,
               blogContent, apiResponse, vectorPc, vectorData>>

sessionVars == <<themeSession, themeCalls, clusteringEngine, clusterCall,
                 currentCluster>>

vars == <<linkgapVars, semanticVars, vectorVars, sessionVars>>

----------------------------------------------------------------------------
(* Bounds of the model *)

MaxContextual == 11
MaxWordSteps == 24
WordStep == 50
ManyExternal == 11
MaxDepth == 7
MaxHeadings == 3
MaxParagraphs == 4
MaxDiversityLinks == 40
MaxLinks == 3
MaxComponents == 3
MaxDimensions == 12
MaxCallers == 2
MaxLevel == 6
MaxCandidates == 3

----------------------------------------------------------------------------
(* Helpers *)

Max(a, b) == IF a > b THEN a ELSE b
Min(a, b) == IF a < b THEN a ELSE b

NoValue == "unset"

\* no call is made on an instance apart from the run of the script
SessionIdle ==
    /\ themeSession = NoValue
    /\ themeCalls = <<>>
    /\ clusteringEngine = NoValue
    /\ clusterCall = NoValue
    /\ currentCluster = NoValue

\* the semantic analysis script has not been loaded on the page
SemanticIdle ==
    /\ SessionIdle
    /\ seoSpider = TRUE
    /\ location = NoValue
    /\ document = NoValue
    /\ semanticPc = "idle"
    /\ semanticAnalyzer = NoValue
    /\ healthCheck = NoValue
    /\ pageContent = NoValue
    /\ embedding = NoValue
    /\ pending = <<>>
    /\ collected = <<>>
    /\ results = NoValue
    /\ ollama = NoValue
    /\ semanticData = NoValue

\* the embedding script has not been loaded on the page
VectorIdle ==
    /\ rawData = NoValue
    /\ cleaned = NoValue
    /\ fallbackCall = NoValue
    /\ simpleEmbedding = <<>>
    /\ currentEmbedding = NoValue
    /\ blogContent = NoValue
    /\ apiResponse = NoValue
    /\ vectorPc = "idle"
    /\ vectorData = NoValue

\* the link gap script has not been loaded on the page
LinkgapIdle ==
    /\ config = NoValue
    /\ pc = "idle"
    /\ allLinks = <<>>
    /\ linkAnalysis = NoValue
    /\ linkData = NoValue
    /\ contentElement = NoValue
    /\ contentData = NoValue
    /\ pageType = NoValue
    /\ urlDepth = 0
    /\ opportunityAnalysis = NoValue
    /\ linkDiversity = NoValue
    /\ externalBalance = NoValue
    /\ recommendations = NoValue
    /\ contextualLinkData = NoValue

----------------------------------------------------------------------------
(* Strings.  TLC's strings have Len, SubSeq and \o, so the script's string *)
(* tests are computed on the text itself.                                  *)

CharAt(str, i) == SubSeq(str, i, i)

\* String.prototype.includes
Includes(str, part) ==
    \E i \in 1..(Len(str) - Len(part) + 1) :
        SubSeq(str, i, i + Len(part) - 1) = part

\* String.prototype.startsWith
StartsWith(str, part) ==
    Len(str) >= Len(part) /\ SubSeq(str, 1, Len(part)) = part

UpperLetters ==
    {"A", "B", "C", "D", "E", "F", "G", "H", "I", "J", "K", "L", "M",
     "N", "O", "P", "Q", "R", "S", "T", "U", "V", "W", "X", "Y", "Z"}

LowerLetters ==
    {"a", "b", "c", "d", "e", "f", "g", "h", "i", "j", "k", "l", "m",
     "n", "o", "p", "q", "r", "s", "t", "u", "v", "w", "x", "y", "z"}

LowerOf(ch) ==
    CASE ch = "A" -> "a" [] ch = "B" -> "b" [] ch = "C" -> "c" [] ch = "D" -> "d"
      [] ch = "E" -> "e" [] ch = "F" -> "f" [] ch = "G" -> "g" [] ch = "H" -> "h"
      [] ch = "I" -> "i" [] ch = "J" -> "j" [] ch = "K" -> "k" [] ch = "L" -> "l"
      [] ch = "M" -> "m" [] ch = "N" -> "n" [] ch = "O" -> "o" [] ch = "P" -> "p"
      [] ch = "Q" -> "q" [] ch = "R" -> "r" [] ch = "S" -> "s" [] ch = "T" -> "t"
      [] ch = "U" -> "u" [] ch = "V" -> "v" [] ch = "W" -> "w" [] ch = "X" -> "x"
      [] ch = "Y" -> "y" [] ch = "Z" -> "z" [] OTHER -> ch

\* String.prototype.toLowerCase
RECURSIVE toLowerCase(_)
toLowerCase(str) ==
    IF str = "" THEN ""
    ELSE IF Len(str) = 1 THEN LowerOf(str)
    ELSE toLowerCase(SubSeq(str, 1, Len(str) \div 2))
            \o toLowerCase(SubSeq(str, Len(str) \div 2 + 1, Len(str)))

\* String.prototype.trim, for text padded with spaces
RECURSIVE trim(_)
trim(str) ==
    IF str # "" /\ CharAt(str, 1) = " " THEN trim(SubSeq(str, 2, Len(str)))
    ELSE IF str # "" /\ CharAt(str, Len(str)) = " "
    THEN trim(SubSeq(str, 1, Len(str) - 1))
    ELSE str

AllIn(str, from, to, chars) ==
    \A i \in from..to : CharAt(str, i) \in chars

\* line 96: /\/trade\/|\/tradeview\/|\/market\/|\/price\//i.test(href)
TradingPath(href) ==
    LET h == toLowerCase(href)
    IN  \/ Includes(h, "/trade/") \/ Includes(h, "/tradeview/")
        \/ Includes(h, "/market/") \/ Includes(h, "/price/")

\* line 98: /\/[A-Z]+-[A-Z]+/i.test(href)
PairPath(href) ==
    \E i \in 1..Len(href), j \in 1..Len(href) :
        /\ i + 1 < j /\ j < Len(href)
        /\ CharAt(href, i) = "/"
        /\ AllIn(href, i + 1, j - 1, UpperLetters \cup LowerLetters)
        /\ CharAt(href, j) = "-"
        /\ CharAt(href, j + 1) \in UpperLetters \cup LowerLetters

\* line 104: /^[A-Z]{2,5}-[A-Z]{2,5}$/.test(linkText)
PairText(text) ==
    \E k \in 2..5 :
        /\ Len(text) - k - 1 \in 2..5
        /\ AllIn(text, 1, k, UpperLetters)
        /\ CharAt(text, k + 1) = "-"
        /\ AllIn(text, k + 2, Len(text), UpperLetters)

----------------------------------------------------------------------------
(* CONFIG: densities in tenths of a percent, the external ratio in tenths *)

CONFIG ==
    [ CONTEXTUAL_LINK_TARGET   |-> 100,
      MIN_CONTEXTUAL_DENSITY   |-> 8,
      MAX_CONTEXTUAL_DENSITY   |-> 30,
      THIN_CONTENT_THRESHOLD   |-> 300,
      MEDIUM_CONTENT_THRESHOLD |-> 800,
      HIGH_CONTENT_THRESHOLD   |-> 800,
      MIN_WORDS_FOR_LINKS      |-> 50,
      EXTERNAL_WARNING_RATIO   |-> 20 ]

----------------------------------------------------------------------------
(* analyzeContentElement, lines 261-279: the quality classification.  The  *)
(* element is given by what lines 219-259 count in its filtered clone.     *)

\* a classification whose demotion for want of structure falls to 'thin'
ClassifyQualityDemotingToThin(words, headings, paragraphs) ==
    LET byWords ==
            IF words < config.THIN_CONTENT_THRESHOLD THEN "thin"
            ELSE IF words < config.MEDIUM_CONTENT_THRESHOLD THEN "medium"
            ELSE "high"
        promoted ==
            IF byWords = "medium" /\ headings >= 3 /\ paragraphs >= 4
            THEN "high" ELSE byWords
    IN  IF promoted = "high" /\ headings < 2 THEN "thin" ELSE promoted

ClassifyQuality(words, headings, paragraphs) ==
    LET byWords ==
            IF words < config.THIN_CONTENT_THRESHOLD THEN "thin"
            ELSE IF words < config.MEDIUM_CONTENT_THRESHOLD THEN "medium"
            ELSE "high"
        promoted ==
            IF byWords = "medium" /\ headings >= 3 /\ paragraphs >= 4
            THEN "high" ELSE byWords
    IN  IF promoted = "high" /\ headings < 2 THEN "medium" ELSE promoted

analyzeContentElement(element) ==
    [ words      |-> element.words,
      headings   |-> element.headings,
      paragraphs |-> element.paragraphs,
      quality    |-> ClassifyQuality(element.words, element.headings,
                                     element.paragraphs) ]

----------------------------------------------------------------------------
(* calculateContextualOpportunity, lines 315-436.  The function builds its *)
(* result in four locals, kept here in one record that each factor         *)
(* rewrites in the script's order.  A breakdown entry is its label and its *)
(* points; an opportunity is the tag that opens its message.               *)

Entry(label, points) == [label |-> label, points |-> points]

\* lines 316-324
InitialAnalysis(ld) ==
    [ opportunityScore |-> 0,
      scoreBreakdown   |-> <<>>,
      opportunities    |-> <<>>,
      gapAnalysis      |-> [ hasGap           |-> FALSE,
                             severity         |-> "none",
                             recommendedLinks |-> 0,
                             currentLinks     |-> ld.contextual ] ]

\* line 355
IdealLinks(cd) == Max(1, cd.words \div config.CONTEXTUAL_LINK_TARGET)

\* line 356 against line 378: (contextual / words) * 100 < MIN_CONTEXTUAL_DENSITY
DensityBelow(ld, cd, tenths) == ld.contextual * 1000 < tenths * cd.words

\* line 356 against line 386: (contextual / words) * 100 > MAX_CONTEXTUAL_DENSITY
DensityAbove(ld, cd, tenths) == ld.contextual * 1000 > tenths * cd.words

\* lines 411 and 461: unique / max(contextual, 1) < tenths / 10
UniqueRatioBelow(ld, tenths) ==
    ld.uniqueContextual * 10 < tenths * Max(ld.contextual, 1)

\* a gap factor of 8 points per missing link without the cap of 30
GapFactorUncapped(a, ld, cd) ==
    LET idealLinks == IdealLinks(cd)
        gap0       == [a.gapAnalysis EXCEPT !.recommendedLinks = idealLinks]
    IN  IF ld.contextual = 0
        THEN [a EXCEPT
                !.opportunityScore = @ + 40,
                !.scoreBreakdown   = Append(@, Entry("Zero contextual links", 40)),
                !.gapAnalysis      = [gap0 EXCEPT !.hasGap = TRUE,
                                                  !.severity = "critical"],
                !.opportunities    = Append(@, "CRITICAL GAP")]
        ELSE IF ld.contextual < idealLinks
        THEN LET deficit   == idealLinks - ld.contextual
                 gapPoints == deficit * 8
             IN  [a EXCEPT
                    !.opportunityScore = @ + gapPoints,
                    !.scoreBreakdown   = Append(@, Entry("Link deficit", gapPoints)),
                    !.gapAnalysis      =
                        [gap0 EXCEPT !.hasGap = TRUE,
                                     !.severity = IF deficit >= 3 THEN "high"
                                                  ELSE "medium"],
                    !.opportunities    = Append(@, "LINK GAP")]
        ELSE [a EXCEPT !.gapAnalysis = gap0]

\* lines 360-375: 1. gap severity
GapFactor(a, ld, cd) ==
    LET idealLinks == IdealLinks(cd)
        gap0       == [a.gapAnalysis EXCEPT !.recommendedLinks = idealLinks]
    IN  IF ld.contextual = 0
        THEN [a EXCEPT
                !.opportunityScore = @ + 40,
                !.scoreBreakdown   = Append(@, Entry("Zero contextual links", 40)),
                !.gapAnalysis      = [gap0 EXCEPT !.hasGap = TRUE,
                                                  !.severity = "critical"],
                !.opportunities    = Append(@, "CRITICAL GAP")]
        ELSE IF ld.contextual < idealLinks
        THEN LET deficit   == idealLinks - ld.contextual
                 gapPoints == Min(30, deficit * 8)
             IN  [a EXCEPT
                    !.opportunityScore = @ + gapPoints,
                    !.scoreBreakdown   = Append(@, Entry("Link deficit", gapPoints)),
                    !.gapAnalysis      =
                        [gap0 EXCEPT !.hasGap = TRUE,
                                     !.severity = IF deficit >= 3 THEN "high"
                                                  ELSE "medium"],
                    !.opportunities    = Append(@, "LINK GAP")]
        ELSE [a EXCEPT !.gapAnalysis = gap0]

\* lines 377-383: 2. low density
LowDensityFactor(a, ld, cd) ==
    IF DensityBelow(ld, cd, config.MIN_CONTEXTUAL_DENSITY)
    THEN [a EXCEPT
            !.opportunityScore = @ + 15,
            !.scoreBreakdown   = Append(@, Entry("Low density", 15)),
            !.opportunities    = Append(@, "LOW DENSITY")]
    ELSE a

\* an over-linking penalty that already fires at the maximum density itself
OverLinkingFactorAtLimit(a, ld, cd) ==
    IF ~DensityBelow(ld, cd, config.MAX_CONTEXTUAL_DENSITY)
    THEN [a EXCEPT
            !.opportunityScore = @ + 20,
            !.scoreBreakdown   = Append(@, Entry("Over-linking", 20)),
            !.opportunities    = Append(@, "OVER-LINKED")]
    ELSE a

\* lines 385-391: over-linking penalty
OverLinkingFactor(a, ld, cd) ==
    IF DensityAbove(ld, cd, config.MAX_CONTEXTUAL_DENSITY)
    THEN [a EXCEPT
            !.opportunityScore = @ + 20,
            !.scoreBreakdown   = Append(@, Entry("Over-linking", 20)),
            !.opportunities    = Append(@, "OVER-LINKED")]
    ELSE a

\* lines 394-401
pageTypeWeights ==
    [ t \in {"homepage", "trading-pair", "crypto-specific", "learn-hub",
             "blog-article", "market-data"} |->
        CASE t = "homepage"        -> [minLinks |-> 4, weight |-> 20]
          [] t = "trading-pair"    -> [minLinks |-> 3, weight |-> 15]
          [] t = "crypto-specific" -> [minLinks |-> 4, weight |-> 15]
          [] t = "learn-hub"       -> [minLinks |-> 5, weight |-> 18]
          [] t = "blog-article"    -> [minLinks |-> 3, weight |-> 12]
          [] t = "market-data"     -> [minLinks |-> 2, weight |-> 10] ]

\* lines 403-408: 3. page type weighting
PageTypeFactor(a, ld, pt) ==
    IF pt \in DOMAIN pageTypeWeights
       /\ ld.contextual < pageTypeWeights[pt].minLinks
    THEN [a EXCEPT
            !.opportunityScore = @ + pageTypeWeights[pt].weight,
            !.scoreBreakdown   = Append(@, Entry("Page type priority",
                                                 pageTypeWeights[pt].weight)),
            !.opportunities    = Append(@, "PAGE TYPE")]
    ELSE a

\* a duplicate penalty that already looks at pages of three links
DuplicateFactorFromThree(a, ld) ==
    IF ld.contextual > 2 /\ UniqueRatioBelow(ld, 7)
    THEN [a EXCEPT
            !.opportunityScore = @ + 15,
            !.scoreBreakdown   = Append(@, Entry("Duplicate links", 15)),
            !.opportunities    = Append(@, "DUPLICATE LINKS")]
    ELSE a

\* lines 410-420: 4. link quality issues
DuplicateFactor(a, ld) ==
    IF ld.contextual > 5 /\ UniqueRatioBelow(ld, 7)
    THEN [a EXCEPT
            !.opportunityScore = @ + 15,
            !.scoreBreakdown   = Append(@, Entry("Duplicate links", 15)),
            !.opportunities    = Append(@, "DUPLICATE LINKS")]
    ELSE a

\* a depth factor without the test depth > 3
DepthFactorAtEveryDepth(a, depth) ==
    LET depthPoints == Min(10, (depth - 3) * 3)
    IN  [a EXCEPT
           !.opportunityScore = @ + depthPoints,
           !.scoreBreakdown   = Append(@, Entry("Deep page", depthPoints)),
           !.opportunities    = Append(@, "DEEP PAGE")]

\* lines 422-428: 5. URL depth factor
DepthFactor(a, depth) ==
    IF depth > 3
    THEN LET depthPoints == Min(10, (depth - 3) * 3)
         IN  [a EXCEPT
                !.opportunityScore = @ + depthPoints,
                !.scoreBreakdown   = Append(@, Entry("Deep page", depthPoints)),
                !.opportunities    = Append(@, "DEEP PAGE")]
    ELSE a

\* Array.prototype.slice(-n): the last n entries instead of the first
SliceLast(s, n) == SubSeq(s, Max(1, Len(s) - n + 1), Len(s))

\* Array.prototype.slice(0, n)
Slice(s, n) == SubSeq(s, 1, Min(n, Len(s)))

\* lines 430-435
Result(a) ==
    [ score          |-> Min(a.opportunityScore, 100),
      scoreBreakdown |-> a.scoreBreakdown,
      opportunities  |-> Slice(a.opportunities, 3),
      gapAnalysis    |-> a.gapAnalysis ]

\* the scorer without the early exit of lines 340-352
ScoreWithoutThinExit(ld, cd, pt, depth) ==
    LET a0 == InitialAnalysis(ld)
    IN  IF cd.words < 10
        THEN [ score          |-> 90,
               scoreBreakdown |-> <<Entry("Critical: Broken/empty page", 90)>>,
               opportunities  |-> <<"CRITICAL">>,
               gapAnalysis    |-> [a0.gapAnalysis EXCEPT !.hasGap = TRUE,
                                                         !.severity = "critical"] ]
        ELSE Result(DepthFactor(DuplicateFactor(PageTypeFactor(
                 OverLinkingFactor(LowDensityFactor(GapFactor(a0, ld, cd), ld, cd),
                                   ld, cd), ld, pt), ld), depth))

calculateContextualOpportunity(ld, cd, pt, depth) ==
    LET a0 == InitialAnalysis(ld)
    IN  IF cd.words < 10
        THEN \* lines 326-338
             [ score          |-> 90,
               scoreBreakdown |-> <<Entry("Critical: Broken/empty page", 90)>>,
               opportunities  |-> <<"CRITICAL">>,
               gapAnalysis    |-> [a0.gapAnalysis EXCEPT !.hasGap = TRUE,
                                                         !.severity = "critical"] ]
        ELSE IF cd.words < config.MIN_WORDS_FOR_LINKS
        THEN \* lines 340-352
             [ score          |-> 50,
               scoreBreakdown |-> <<Entry("Thin content penalty", 50)>>,
               opportunities  |-> <<"THIN CONTENT">>,
               gapAnalysis    |-> [a0.gapAnalysis EXCEPT !.hasGap = TRUE,
                                                         !.severity = "medium"] ]
        ELSE LET a1 == GapFactor(a0, ld, cd)
                 a2 == LowDensityFactor(a1, ld, cd)
                 a3 == OverLinkingFactor(a2, ld, cd)
                 a4 == PageTypeFactor(a3, ld, pt)
                 a5 == DuplicateFactor(a4, ld)
                 a6 == DepthFactor(a5, depth)
             IN  Result(a6)

----------------------------------------------------------------------------
(* Double-precision arithmetic for calculateLinkDiversity, line 443:       *)
(*     Math.round((unique / contextual) * 100)                            *)
(* 100 * unique / contextual can lie exactly half way between two whole    *)
(* percentages, and there the two roundings of the double evaluation (of   *)
(* the quotient, then of the product) decide the result.  A positive       *)
(* double is kept as a whole number times a power of two, [limbs, k] being *)
(* limbs * 2^-(k + 54); the whole number is written in base 512, most      *)
(* significant limb first, and has at most 53 significant bits.            *)

SignificandBits == 53
LimbBits == 9
Limb == 512

RECURSIVE Pow2(_)
Pow2(k) == IF k = 0 THEN 1 ELSE 2 * Pow2(k - 1)

\* the number of bits of a small whole number
RECURSIVE BitLength(_)
BitLength(n) == IF n = 0 THEN 0 ELSE 1 + BitLength(n \div 2)

\* limbs + v for a small v
RECURSIVE AddSmall(_, _)
AddSmall(ls, v) ==
    IF ls = <<>> THEN (IF v = 0 THEN <<>> ELSE <<v>>)
    ELSE LET n == Len(ls)
             t == ls[n] + v
         IN  IF t >= Limb
             THEN AddSmall(SubSeq(ls, 1, n - 1), t \div Limb) \o <<t % Limb>>
             ELSE SubSeq(ls, 1, n - 1) \o <<t>>

\* limbs * m + carry for a small m
RECURSIVE MulSmall(_, _, _)
MulSmall(ls, m, carry) ==
    IF ls = <<>> THEN (IF carry = 0 THEN <<>> ELSE <<carry>>)
    ELSE LET n == Len(ls)
             t == ls[n] * m + carry
         IN  IF t >= Limb
             THEN MulSmall(SubSeq(ls, 1, n - 1), m, t \div Limb) \o <<t % Limb>>
             ELSE MulSmall(SubSeq(ls, 1, n - 1), m, 0) \o <<t>>

\* IEEE 754 round-to-nearest, ties-to-even, to 53 significant bits, of the
\* whole number limbs (first limb not 0, at most 62 bits) followed by a
\* non-zero fraction iff sticky; the dropped bits are left in place as zeros
RoundToDouble(ls, sticky) ==
    LET n     == Len(ls)
        drop  == (n - 1) * LimbBits + BitLength(ls[1]) - SignificandBits
        unit  == Pow2(drop)
        low   == ls[n] % unit
        even  == IF drop < LimbBits THEN (ls[n] \div unit) % 2 = 0
                 ELSE ls[n - 1] % 2 = 0
        up    == \/ 2 * low > unit
                 \/ 2 * low = unit /\ (sticky \/ ~even)
        kept  == SubSeq(ls, 1, n - 1) \o <<ls[n] - low>>
    IN  IF drop <= 0 THEN ls
        ELSE IF up THEN AddSmall(kept, unit)
        ELSE kept

\* n more base-512 digits of the quotient r / c, for a remainder 0 <= r < c
RECURSIVE DivLimbs(_, _, _)
DivLimbs(r, c, n) ==
    IF n = 0 THEN <<>>
    ELSE <<(r * Limb) \div c>> \o DivLimbs((r * Limb) % c, c, n - 1)

\* the remainder left after those n digits
RECURSIVE DivRem(_, _, _)
DivRem(r, c, n) ==
    IF n = 0 THEN r ELSE DivRem((r * Limb) % c, c, n - 1)

\* the least k with u * 2^k >= c
RECURSIVE Shift(_, _)
Shift(u, c) == IF u >= c THEN 0 ELSE 1 + Shift(2 * u, c)

\* the double u / c, for whole 1 <= u <= c: the quotient's first 55 bits are a
\* one and six base-512 digits
DoubleDiv(u, c) ==
    LET k == Shift(u, c)
        r == u * Pow2(k) - c
    IN  [ limbs |-> RoundToDouble(<<1>> \o DivLimbs(r, c, 6),
                                  DivRem(r, c, 6) # 0),
          k     |-> k ]

\* the double x * 100
DoubleTimes100(x) ==
    [ limbs |-> RoundToDouble(MulSmall(x.limbs, 100, 0), FALSE), k |-> x.k ]

RECURSIVE LimbsValue(_)
LimbsValue(ls) ==
    IF ls = <<>> THEN 0
    ELSE Limb * LimbsValue(SubSeq(ls, 1, Len(ls) - 1)) + ls[Len(ls)]

\* Math.round of a positive double: the whole part, plus one when the first
\* fractional bit is set (a tie goes up)
MathRound(x) ==
    LET n     == Len(x.limbs)
        whole == LimbsValue(SubSeq(x.limbs, 1, n - 6))  \* x * 2^k, truncated
        half  == IF x.k >= 1 THEN (whole \div Pow2(x.k - 1)) % 2
                 ELSE x.limbs[n - 5] \div (Limb \div 2)
    IN  whole \div Pow2(x.k) + half

\* Math.round((unique / contextual) * 100) for 1 <= unique <= contextual
RoundedPercent(unique, contextual) ==
    MathRound(DoubleTimes100(DoubleDiv(unique, contextual)))

----------------------------------------------------------------------------
(* The rest of the script's main execution, lines 438-602 *)

\* the diversity of every pair of counts the model uses, computed once
PercentTable ==
    [ c \in 1..Max(MaxContextual, MaxDiversityLinks) |->
        [ u \in 1..c |-> RoundedPercent(u, c) ] ]

\* lines 439-444; 'N/A' is [na |-> TRUE], 'p%' is [na |-> FALSE, percent |-> p]
calculateLinkDiversity(ld) ==
    IF ld.contextual = 0
    THEN [na |-> TRUE, percent |-> 0]
    ELSE [na |-> FALSE,
          percent |-> PercentTable[ld.contextual][ld.uniqueContextual]]

\* lines 447-456; the result is the text that opens the message
checkExternalLinkBalance(ld) ==
    IF ld.contextual > 0
       /\ ld.external * 10 > config.EXTERNAL_WARNING_RATIO * Max(ld.contextual, 1)
    THEN "HIGH EXTERNAL RATIO"
    ELSE IF ld.contextual = 0 /\ ld.external > 10
    THEN "EXTERNAL ONLY"
    ELSE "BALANCED"

\* a recommendation: the tag that opens its message and the count it shows
Rec(tag, n) == [tag |-> tag, n |-> n]

When(cond, entry) == IF cond THEN <<entry>> ELSE <<>>

\* lines 517-547: the page types that have contextual suggestions
contextualSuggestions ==
    {"trading-pair", "crypto-specific", "learn-hub", "blog-article",
     "market-data", "homepage"}

\* line 488: Math.ceil(words * 0.025), which is the exact ceiling of words / 40
\* for every word count up to 5000
TargetLinks(words) == (words + 39) \div 40

\* lines 459-556
generateContextualRecommendations(ld, cd, pt, gap, balance) ==
    IF cd.words < 10
    THEN <<Rec("BROKEN PAGE", cd.words)>>                        \* lines 465-468
    ELSE IF cd.words < 50 /\ Includes(pt, "blog")
    THEN <<Rec("BLOG FAILURE", cd.words)>>                       \* lines 470-473
    ELSE
      LET dense    == DensityAbove(ld, cd, 30)
          repeated == UniqueRatioBelow(ld, 7)
          needed   == gap.recommendedLinks - gap.currentLinks
          all ==
            \* lines 475-478
            When(balance \in {"HIGH EXTERNAL RATIO", "EXTERNAL ONLY"},
                 Rec("LINK BALANCE", ld.external))
            \* lines 480-484
            \o When(ld.contextual > 5 /\ repeated,
                    Rec("REMOVE DUPLICATE LINKS",
                        ld.contextual - ld.uniqueContextual))
            \* lines 486-490
            \o When(dense,
                    Rec("REDUCE LINKS", ld.contextual - TargetLinks(cd.words)))
            \* lines 492-503
            \o When(gap.hasGap,
                    IF gap.severity = "critical"
                    THEN Rec("ADD CONTEXTUAL LINKS", needed)
                    ELSE IF gap.severity = "high"
                    THEN Rec("ADD MORE LINKS", needed)
                    ELSE Rec("OPTIMIZE", needed))
            \* lines 505-513
            \o When(pt = "homepage" /\ ld.contextual > 10
                      /\ UniqueRatioBelow(ld, 8),
                    Rec("HOMEPAGE FOCUS", 0))
            \o When(pt = "homepage" /\ cd.quality = "thin",
                    Rec("HOMEPAGE CONTENT", cd.words))
            \* lines 515-553
            \o When(~dense /\ ~repeated /\ pt \in contextualSuggestions
                      /\ gap.hasGap,
                    Rec("SPECIFIC IDEAS", 0))
      IN  Slice(all, 3)                                          \* line 555

\* String.prototype.toUpperCase on the qualities and severities
toUpperCase(str) ==
    CASE str = "thin"     -> "THIN"
      [] str = "medium"   -> "MEDIUM"
      [] str = "high"     -> "HIGH"
      [] str = "none"     -> "NONE"
      [] str = "critical" -> "CRITICAL"

\* array[i] || fallback, for a 0-based index i
OrElse(array, i, fallback) ==
    IF i + 1 <= Len(array) THEN array[i + 1] ELSE fallback

\* lines 571-602: the report record (the fields computed from the analysis)
Report(ld, cd, pt, depth, oa, diversity, balance, recs) ==
    [ PageType              |-> pt,
      ContentWords          |-> cd.words,
      ContentQuality        |-> toUpperCase(cd.quality),
      ContextualLinks       |-> ld.contextual,
      UniqueContextual      |-> ld.uniqueContextual,
      LinkDiversity         |-> diversity,
      IdealContextualLinks  |-> oa.gapAnalysis.recommendedLinks,
      \* 'n MISSING' is [none |-> FALSE, missing |-> n]
      LinkGap               |->
          IF oa.gapAnalysis.hasGap
          THEN [none |-> FALSE,
                missing |-> oa.gapAnalysis.recommendedLinks - ld.contextual]
          ELSE [none |-> TRUE, missing |-> 0],
      GapSeverity           |-> toUpperCase(oa.gapAnalysis.severity),
      ExternalLinkBalance   |-> balance,
      OpportunityScore      |-> oa.score,
      ScoreBreakdown        |-> oa.scoreBreakdown,
      URLDepth              |-> depth,
      ExternalLinks         |-> ld.external,
      PrimaryIssue          |-> OrElse(oa.opportunities, 0, "No significant issues"),
      Action1               |-> OrElse(recs, 0, Rec("Monitor current approach", 0)),
      Action2               |-> OrElse(recs, 1, Rec("No additional actions needed", 0)),
      Action3               |-> OrElse(recs, 2, Rec("Consider content expansion", 0)),
      LinkPriority          |-> IF oa.score >= 50 THEN "HIGH"
                                ELSE IF oa.score >= 25 THEN "MEDIUM" ELSE "LOW",
      QuickFix              |->
          IF cd.words < 10 THEN Rec("URGENT: Fix broken/empty page content", 0)
          ELSE IF cd.words < 50 /\ Includes(pt, "blog")
          THEN Rec("URGENT: Add substantial blog content", 0)
          ELSE IF ld.contextual = 0 /\ cd.words >= 50
          THEN Rec("Add 1-2 contextual links immediately", 0)
          ELSE IF oa.gapAnalysis.hasGap
          THEN Rec("Add more links",
                   oa.gapAnalysis.recommendedLinks - ld.contextual)
          ELSE IF ld.contextual > 5 /\ UniqueRatioBelow(ld, 7)
          THEN Rec("Remove duplicate links", 0)
          ELSE Rec("Maintain current linking", 0) ]

----------------------------------------------------------------------------
(* getLinkContext, lines 89-184.  An element is its tagName, className, id *)
(* and role; a link is its href, rel and text, its own element and its     *)
(* ancestors below the body, the parent first.                             *)

Node(tagName, className, id, role) ==
    [tagName |-> tagName, className |-> className, id |-> id, role |-> role]

Body == Node("BODY", "", "", "")
Html == Node("HTML", "", "", "")

\* the link's element and its parentElement chain, up to the document element
Chain(link) == <<link.self>> \o link.ancestors \o <<Body, Html>>

\* the place of document.body in the chain
BodyAt(link) == Len(link.ancestors) + 2

\* lines 114-128: data and interface containers
DataContainer(el) ==
    LET tagName   == toLowerCase(el.tagName)
        className == toLowerCase(el.className)
    IN  \/ Includes(className, "table") \/ Includes(className, "list")
        \/ Includes(className, "grid") \/ Includes(className, "market")
        \/ Includes(className, "trading") \/ Includes(className, "pairs")
        \/ Includes(className, "ticker") \/ Includes(className, "price")
        \/ tagName \in {"table", "tbody", "tr", "td"}

\* lines 130-142: navigation
NavigationContainer(el) ==
    LET tagName   == toLowerCase(el.tagName)
        className == toLowerCase(el.className)
        id        == toLowerCase(el.id)
    IN  \/ tagName = "nav"
        \/ Includes(className, "nav") \/ Includes(className, "menu")
        \/ Includes(className, "breadcrumb") \/ Includes(className, "header")
        \/ Includes(className, "sidebar") \/ Includes(className, "widget")
        \/ Includes(id, "nav") \/ Includes(id, "menu") \/ Includes(id, "header")

\* lines 144-149: footer
FooterContainer(el) ==
    \/ toLowerCase(el.tagName) = "footer"
    \/ Includes(toLowerCase(el.className), "footer")
    \/ Includes(toLowerCase(el.id), "footer")

\* lines 151-157: template containers
TemplateContainer(el) ==
    LET className == toLowerCase(el.className)
    IN  \/ Includes(className, "template") \/ Includes(className, "global")
        \/ Includes(className, "sitewide")
        \/ el.role = "navigation"

\* lines 114-157: what one pass of the first loop's body returns
TemplateRule(el) ==
    IF DataContainer(el) THEN "navigation"
    ELSE IF NavigationContainer(el) THEN "navigation"
    ELSE IF FooterContainer(el) THEN "footer"
    ELSE IF TemplateContainer(el) THEN "navigation"
    ELSE "none"

\* lines 168-176: strong indicators of written content
ContentIndicator(el) ==
    LET tagName   == toLowerCase(el.tagName)
        className == toLowerCase(el.className)
    IN  \/ tagName = "p"
        \/ (tagName = "article" /\ Includes(className, "content"))
        \/ (tagName = "div" /\ Includes(className, "post"))
        \/ Includes(className, "article-body")
        \/ Includes(className, "post-content")
        \/ Includes(className, "entry-content")

\* lines 108-160: for (i = 0; i < 5 && element && element !== document.body; i++)
TemplateWalk(link) ==
    LET chain == Chain(link)
        seen  == 1..Min(5, BodyAt(link) - 1)
        hits  == { i \in seen : TemplateRule(chain[i]) # "none" }
    IN  IF hits = {} THEN "none"
        ELSE TemplateRule(chain[CHOOSE i \in hits : \A j \in hits : i <= j])

\* lines 162-179: for (i = 0; i < 3 && element; i++)
ContentWalk(link) ==
    LET chain == Chain(link)
    IN  \E i \in 1..Min(3, Len(chain)) : ContentIndicator(chain[i])

\* a classification that looks for written content before it looks for
\* template containers
GetLinkContextContentFirst(link) ==
    LET href     == link.href
        linkText == trim(link.text)
    IN  IF TradingPath(href) /\ PairPath(href) THEN "navigation"
        ELSE IF PairText(linkText) THEN "navigation"
        ELSE IF ContentWalk(link) THEN "contextual"
        ELSE IF TemplateWalk(link) # "none" THEN TemplateWalk(link)
        ELSE "navigation"

getLinkContext(link) ==
    LET href     == link.href
        linkText == trim(link.text)
    IN  IF TradingPath(href) /\ PairPath(href) THEN "navigation"   \* lines 96-101
        ELSE IF PairText(linkText) THEN "navigation"               \* lines 104-106
        ELSE IF TemplateWalk(link) # "none" THEN TemplateWalk(link)
        ELSE IF ContentWalk(link) THEN "contextual"
        ELSE "navigation"                                          \* line 183

----------------------------------------------------------------------------
(* analyzeLinksAdvanced, lines 26-86 *)

\* window.location.hostname, line 23
domain == "example.com"

\* lines 28-39
EmptyLinkAnalysis ==
    [ contextual       |-> 0,
      template         |-> 0,
      navigation       |-> 0,
      footer           |-> 0,
      external         |-> 0,
      nofollow         |-> 0,
      contextualLinks  |-> <<>>,
      templateLinks    |-> <<>>,
      uniqueContextual |-> {},
      uniqueTemplate   |-> {} ]

\* lines 48-51
IsInternal(href) ==
    \/ StartsWith(href, "/")
    \/ StartsWith(href, "?")
    \/ (StartsWith(href, "http") /\ Includes(href, domain))

\* a pass that counts nofollow on every internal link, whatever its context
VisitLinkCountingEveryNofollow(la, link) ==
    LET href        == link.href
        anchorText  == trim(link.text)
        linkContext == getLinkContext(link)
        counted ==
            IF linkContext = "contextual"
            THEN [la EXCEPT
                    !.contextual       = @ + 1,
                    !.uniqueContextual = @ \cup {href},
                    !.contextualLinks  =
                        Append(@, [ text    |-> anchorText,
                                    href    |-> href,
                                    element |-> link.self.tagName,
                                    parent  |-> Chain(link)[2].tagName ])]
            ELSE [la EXCEPT
                    !.template       = @ + 1,
                    ![linkContext]   = @ + 1,
                    !.uniqueTemplate = @ \cup {href},
                    !.templateLinks  =
                        Append(@, [ text    |-> anchorText,
                                    href    |-> href,
                                    context |-> linkContext ])]
    IN  IF href = "#" \/ href = "" THEN la
        ELSE IF IsInternal(href)
        THEN IF Includes(link.rel, "nofollow")
             THEN [counted EXCEPT !.nofollow = @ + 1]
             ELSE counted
        ELSE IF StartsWith(href, "http")
        THEN [la EXCEPT !.external = @ + 1]
        ELSE la

\* lines 41-83: one pass of the forEach
VisitLink(la, link) ==
    LET href        == link.href
        rel         == link.rel
        anchorText  == trim(link.text)
        linkContext == getLinkContext(link)
        counted ==
            IF linkContext = "contextual"
            THEN [la EXCEPT
                    !.contextual       = @ + 1,
                    !.uniqueContextual = @ \cup {href},
                    !.contextualLinks  =
                        Append(@, [ text    |-> anchorText,
                                    href    |-> href,
                                    element |-> link.self.tagName,
                                    parent  |-> Chain(link)[2].tagName ])]
            ELSE [la EXCEPT
                    !.template       = @ + 1,
                    ![linkContext]   = @ + 1,
                    !.uniqueTemplate = @ \cup {href},
                    !.templateLinks  =
                        Append(@, [ text    |-> anchorText,
                                    href    |-> href,
                                    context |-> linkContext ])]
    IN  IF href = "#" \/ href = "" THEN la                          \* line 46
        ELSE IF IsInternal(href)
        THEN IF Includes(rel, "nofollow") /\ linkContext = "contextual"
             THEN [counted EXCEPT !.nofollow = @ + 1]               \* lines 76-79
             ELSE counted
        ELSE IF StartsWith(href, "http")
        THEN [la EXCEPT !.external = @ + 1]                         \* lines 80-82
        ELSE la

\* what the rest of the script reads of the result
LinkSummary(la) ==
    [ contextual       |-> la.contextual,
      uniqueContextual |-> Cardinality(la.uniqueContextual),
      external         |-> la.external ]

----------------------------------------------------------------------------
(* The inputs of one run *)

\* lines 288-311: the categories categorizePageType can return
PageCategories ==
    {"homepage", "trading-pair", "trading-general", "crypto-specific",
     "market-data", "portfolio", "learn-hub", "blog-article", "security-page",
     "fees-pricing", "api-developer", "support-help", "legal-compliance",
     "about-company", "other"}

\* the categories a run is started with: those the script names in a branch
\* (a weight, a suggestion list, 'blog', 'homepage') and two it does not.
\* Line 306 tests each pattern on the title as well as on the URL, so a
\* category does not fix the depth of the URL.
PageTypes ==
    { t \in PageCategories :
        t \in DOMAIN pageTypeWeights \cup contextualSuggestions
                \cup {"trading-general", "other"} }

\* word counts: the short pages around the two early exits, then a grid
Words ==
    {0, 5, 9, 10, 25, 49, 50} \cup {WordStep * k : k \in 1..MaxWordSteps}

\* what analyzeLinksAdvanced can return, as far as the rest of the script
\* reads it: the unique targets are at least one and at most the links
\* counted, and none when nothing was counted
LinkCounts(maxLinks, externals) ==
    { [contextual |-> c, uniqueContextual |-> u, external |-> e] :
        c \in 0..maxLinks, u \in 0..maxLinks, e \in externals }

LinkDatas(maxLinks, externals) ==
    { ld \in LinkCounts(maxLinks, externals) :
        /\ ld.uniqueContextual <= ld.contextual
        /\ (ld.contextual > 0 => ld.uniqueContextual > 0) }

\* the element analyzeContentAdvanced settles on, by its filtered counts
Elements(words, headings, paragraphs) ==
    { [words |-> w, headings |-> h, paragraphs |-> p] :
        w \in words, h \in headings, p \in paragraphs }

----------------------------------------------------------------------------
(* The pages analyzeLinksAdvanced is run on *)

Link(href, rel, text, className, ancestors) ==
    [ href      |-> href,
      rel       |-> rel,
      text      |-> text,
      self      |-> Node("A", className, "", ""),
      ancestors |-> ancestors ]

Paragraph == Node("P", "", "", "")
Division  == Node("DIV", "", "", "")

\* one link of each kind lines 41-184 tell apart
PageLinks ==
    { \* in a paragraph of an article
      Link("/learn/staking", "", "staking guide", "",
           <<Paragraph, Node("ARTICLE", "", "", "")>>),
      \* the same target again, not followed, two levels below the post body
      Link("/learn/staking", "noopener nofollow", "  read more ", "",
           <<Node("SPAN", "", "", ""), Node("DIV", "Post-Content", "", "")>>),
      \* an absolute link to the page's own site
      Link("https://example.com/blog/fees", "", "fees explained", "",
           <<Paragraph>>),
      \* in the main menu
      Link("/markets", "", "Markets", "",
           <<Node("LI", "", "", ""), Node("UL", "main-menu", "", ""),
             Node("NAV", "", "", "")>>),
      \* in a paragraph of the footer, not followed
      Link("/terms", "nofollow", "Terms", "",
           <<Paragraph, Node("FOOTER", "", "site-footer", "")>>),
      \* to another site
      Link("https://other.org/report", "", "annual report", "", <<Paragraph>>),
      \* to another site, naming this one in its query
      Link("https://other.org/?ref=example.com", "", "partner", "",
           <<Paragraph>>),
      \* a fragment placeholder
      Link("#", "", "back to top", "", <<Paragraph>>),
      \* a trading pair by its address
      Link("/trade/BTC-INR", "", "trade now", "", <<Paragraph>>),
      \* a trading pair by its text
      Link("/learn/wallets", "", "ETH-USDT", "", <<Paragraph>>),
      \* in a paragraph, the footer six levels up
      Link("?page=2", "", "next page", "",
           <<Paragraph, Division, Division, Division,
             Node("FOOTER", "", "", "")>>),
      \* a child of the body
      Link("/about", "", "about us", "", <<>>) }

\* the pages of at most n links
Pages(n) == UNION { [1..k -> PageLinks] : k \in 0..n }

----------------------------------------------------------------------------
(* The script's main execution, lines 558-605 *)

Unread ==
    /\ contentData = NoValue
    /\ opportunityAnalysis = NoValue
    /\ linkDiversity = NoValue
    /\ externalBalance = NoValue
    /\ recommendations = NoValue
    /\ contextualLinkData = NoValue

\* line 559 has run, lines 561-562 have read the URL and the title
InitRun(configs, linkDatas, elements, types, depths) ==
    /\ config \in configs
    /\ pc = "content"
    /\ allLinks = <<>>
    /\ linkAnalysis = NoValue
    /\ linkData \in linkDatas
    /\ contentElement \in elements
    /\ pageType \in types
    /\ urlDepth \in depths
    /\ Unread
    /\ SemanticIdle
    /\ VectorIdle

Init ==
    InitRun({CONFIG},
            LinkDatas(MaxContextual, {0, ManyExternal}),
            Elements(Words, {MaxHeadings}, {MaxParagraphs}),
            PageTypes, 0..MaxDepth)

\* line 560
AnalyzeContent ==
    /\ pc = "content"
    /\ contentData' = analyzeContentElement(contentElement)
    /\ pc' = "analyzed"
    /\ UNCHANGED <<config, allLinks, linkAnalysis, linkData, contentElement,
                   pageType, urlDepth,
                   opportunityAnalysis, linkDiversity, externalBalance,
                   recommendations, contextualLinkData>>
    /\ UNCHANGED <<semanticVars, vectorVars, sessionVars>>

\* line 565
Score ==
    /\ pc = "analyzed"
    /\ opportunityAnalysis' =
          calculateContextualOpportunity(linkData, contentData, pageType, urlDepth)
    /\ pc' = "scored"
    /\ UNCHANGED <<config, allLinks, linkAnalysis, linkData, contentElement,
                   contentData, pageType, urlDepth,
                   linkDiversity, externalBalance, recommendations,
                   contextualLinkData>>
    /\ UNCHANGED <<semanticVars, vectorVars, sessionVars>>

\* lines 566-568
Recommend ==
    /\ pc = "scored"
    /\ linkDiversity' = calculateLinkDiversity(linkData)
    /\ externalBalance' = checkExternalLinkBalance(linkData)
    /\ recommendations' =
          generateContextualRecommendations(linkData, contentData, pageType,
              opportunityAnalysis.gapAnalysis, checkExternalLinkBalance(linkData))
    /\ pc' = "advised"
    /\ UNCHANGED <<config, allLinks, linkAnalysis, linkData, contentElement,
                   contentData, pageType, urlDepth,
                   opportunityAnalysis, contextualLinkData>>
    /\ UNCHANGED <<semanticVars, vectorVars, sessionVars>>

\* lines 571-605
Return ==
    /\ pc = "advised"
    /\ contextualLinkData' =
          Report(linkData, contentData, pageType, urlDepth, opportunityAnalysis,
                 linkDiversity, externalBalance, recommendations)
    /\ pc' = "done"
    /\ UNCHANGED <<config, allLinks, linkAnalysis, linkData, contentElement,
                   contentData, pageType, urlDepth,
                   opportunityAnalysis, linkDiversity, externalBalance,
                   recommendations>>
    /\ UNCHANGED <<semanticVars, vectorVars, sessionVars>>

Next == AnalyzeContent \/ Score \/ Recommend \/ Return

Spec == Init /\ [][Next]_vars

----------------------------------------------------------------------------
(* The quality classification over every structure of the content *)

InitContent ==
    InitRun({CONFIG},
            LinkDatas(1, {0}),
            Elements(Words, 0..MaxHeadings, 0..MaxParagraphs),
            {"blog-article"}, {0})

SpecContent == InitContent /\ [][Next]_vars

----------------------------------------------------------------------------
(* analyzeContentAdvanced, lines 187-217, on a page tree.  An element of   *)
(* the tree is given by what it holds: the words, headings and paragraphs  *)
(* no denylist touches, the words inside elements of the denylist of lines *)
(* 223-229, and the words inside elements only the additions of lines      *)
(* 232-238 remove.  The page is its body and the matches of the content    *)
(* selectors, in the order the two forEach of lines 200-209 visit them.    *)

Tree(words, template, banner, headings, paragraphs) ==
    [ words      |-> words,
      template   |-> template,
      banner     |-> banner,
      headings   |-> headings,
      paragraphs |-> paragraphs ]

\* line 220: a deep copy, a tree of its own
cloneNode(element) == element

\* lines 240-243: what is left of the clone once the denylisted elements
\* are removed
RemoveSelectors(clone, isBodyFallback) ==
    [ clone EXCEPT !.template = 0,
                   !.banner = IF isBodyFallback THEN 0 ELSE @ ]

\* lines 246-259: the counts of the clone; words outside the base denylist
\* are counted whether or not the extended denylist would remove them
Counted(clone) ==
    [ words      |-> clone.words + clone.template + clone.banner,
      headings   |-> clone.headings,
      paragraphs |-> clone.paragraphs ]

\* lines 219-280, with the second parameter
AnalyzeElement(element, isBodyFallback) ==
    analyzeContentElement(
        Counted(RemoveSelectors(cloneNode(element), isBodyFallback)))

\* a selection in which a later element of as many words replaces the best
RECURSIVE BestContentLatest(_, _, _)
BestContentLatest(elements, i, best) ==
    IF i > Len(elements) THEN best
    ELSE LET analysis == AnalyzeElement(elements[i], FALSE)
         IN  IF analysis.words >= best.bestWordCount
             THEN BestContentLatest(elements, i + 1,
                      [bestContent |-> <<analysis>>,
                       bestWordCount |-> analysis.words])
             ELSE BestContentLatest(elements, i + 1, best)

\* lines 200-209; bestContent is <<>> while it is null
RECURSIVE BestContent(_, _, _)
BestContent(elements, i, best) ==
    IF i > Len(elements) THEN best
    ELSE LET analysis == AnalyzeElement(elements[i], FALSE)
         IN  IF analysis.words > best.bestWordCount
             THEN BestContent(elements, i + 1,
                      [bestContent |-> <<analysis>>,
                       bestWordCount |-> analysis.words])
             ELSE BestContent(elements, i + 1, best)

NoBest == [bestContent |-> <<>>, bestWordCount |-> 0]

AnalyzeContentAdvancedKeepingLatest(page) ==
    LET best == BestContentLatest(page.candidates, 1, NoBest)
    IN  IF best.bestContent = <<>> \/ best.bestWordCount < 50
        THEN AnalyzeElement(page.body, TRUE)
        ELSE best.bestContent[1]

analyzeContentAdvanced(page) ==
    LET best == BestContent(page.candidates, 1, NoBest)
    IN  IF best.bestContent = <<>> \/ best.bestWordCount < 50
        THEN AnalyzeElement(page.body, TRUE)
        ELSE best.bestContent[1]

\* main content areas: of no words, just short of 50 once a menu is
\* removed, of 50, and two of 120 words that differ in structure
Candidates ==
    { Tree(0, 40, 0, 0, 0), Tree(49, 40, 0, 1, 2), Tree(50, 0, 25, 1, 3),
      Tree(120, 0, 0, 2, 4), Tree(120, 40, 0, 3, 5) }

Bodies == { Tree(30, 200, 60, 1, 1), Tree(300, 200, 60, 4, 6) }

PageTrees ==
    { [candidates |-> c, body |-> b] :
        c \in UNION { [1..n -> Candidates] : n \in 0..MaxCandidates },
        b \in Bodies }

\* line 559 has run on a page tree
InitExtract ==
    /\ config = CONFIG
    /\ pc = "content"
    /\ allLinks = <<>>
    /\ linkAnalysis = NoValue
    /\ linkData \in LinkDatas(1, {0})
    /\ contentElement = NoValue
    /\ pageType = "blog-article"
    /\ urlDepth = 0
    /\ Unread
    /\ VectorIdle
    /\ SessionIdle
    /\ seoSpider = TRUE
    /\ location = NoValue
    /\ document \in PageTrees
    /\ semanticPc = "idle"
    /\ semanticAnalyzer = NoValue
    /\ healthCheck = NoValue
    /\ pageContent = NoValue
    /\ embedding = NoValue
    /\ pending = <<>>
    /\ collected = <<>>
    /\ results = NoValue
    /\ ollama = NoValue
    /\ semanticData = NoValue

\* line 560, on the page tree
AnalyzeContentAdvanced ==
    /\ pc = "content"
    /\ contentData' = analyzeContentAdvanced(document)
    /\ pc' = "analyzed"
    /\ UNCHANGED <<config, allLinks, linkAnalysis, linkData, contentElement,
                   pageType, urlDepth,
                   opportunityAnalysis, linkDiversity, externalBalance,
                   recommendations, contextualLinkData>>
    /\ UNCHANGED <<semanticVars, vectorVars, sessionVars>>

NextExtract == AnalyzeContentAdvanced \/ Score \/ Recommend \/ Return

SpecExtract == InitExtract /\ [][NextExtract]_vars

\* the filtered word count of the i-th match of the content selectors
FilteredWords(i) == document.candidates[i].words + document.candidates[i].banner

\* the first match of the greatest filtered word count
BestMatch ==
    CHOOSE i \in 1..Len(document.candidates) :
        /\ \A j \in 1..Len(document.candidates) : FilteredWords(j) <= FilteredWords(i)
        /\ \A j \in 1..(i - 1) : FilteredWords(j) < FilteredWords(i)

\* the PageContent of an element whose filtered clone has these counts
PageContent(words, headings, paragraphs) ==
    [ words      |-> words,
      headings   |-> headings,
      paragraphs |-> paragraphs,
      quality    |-> ClassifyQuality(words, headings, paragraphs) ]

----------------------------------------------------------------------------
(* Pages of many links, for the diversity percentage *)

InitDiversity ==
    InitRun({CONFIG},
            LinkDatas(MaxDiversityLinks, {0}),
            Elements({5, 400}, {MaxHeadings}, {MaxParagraphs}),
            {"other"}, {0})

SpecDiversity == InitDiversity /\ [][Next]_vars

----------------------------------------------------------------------------
(* The density thresholds at other settings than the defaults: "Each       *)
(* script includes configurable parameters at the top of the file"         *)
(* (src/unnamed/part_000)                                                  *)

\* settings of a density threshold, in tenths of a percent
DensitySettings == {5, 8, 20, 30}

Configs ==
    { [CONFIG EXCEPT !.MIN_CONTEXTUAL_DENSITY = lo,
                     !.MAX_CONTEXTUAL_DENSITY = hi] :
        lo \in DensitySettings, hi \in DensitySettings }

InitCfg ==
    InitRun(Configs,
            LinkDatas(MaxContextual, {0}),
            Elements(Words, {MaxHeadings}, {MaxParagraphs}),
            {"other"}, {0})

SpecCfg == InitCfg /\ [][Next]_vars

----------------------------------------------------------------------------
(* The run from its first line, on a page of a few links *)

InitLinks ==
    /\ config = CONFIG
    /\ pc = "links"
    /\ allLinks \in Pages(MaxLinks)
    /\ linkAnalysis = EmptyLinkAnalysis
    /\ linkData = NoValue
    /\ contentElement \in Elements({5, 400}, {MaxHeadings}, {MaxParagraphs})
    /\ pageType = "blog-article"
    /\ urlDepth = 0
    /\ Unread
    /\ SemanticIdle
    /\ VectorIdle

\* lines 41-83: forEach visits the next link
AnalyzeLink ==
    /\ pc = "links"
    /\ allLinks # <<>>
    /\ linkAnalysis' = VisitLink(linkAnalysis, Head(allLinks))
    /\ allLinks' = Tail(allLinks)
    /\ UNCHANGED <<config, pc, linkData, contentElement, contentData, pageType,
                   urlDepth, opportunityAnalysis, linkDiversity, externalBalance,
                   recommendations, contextualLinkData>>
    /\ UNCHANGED <<semanticVars, vectorVars, sessionVars>>

\* lines 85 and 559: the accumulator is returned and becomes linkData
ReturnLinks ==
    /\ pc = "links"
    /\ allLinks = <<>>
    /\ linkData' = LinkSummary(linkAnalysis)
    /\ pc' = "content"
    /\ UNCHANGED <<config, allLinks, linkAnalysis, contentElement, contentData,
                   pageType, urlDepth, opportunityAnalysis, linkDiversity,
                   externalBalance, recommendations, contextualLinkData>>
    /\ UNCHANGED <<semanticVars, vectorVars, sessionVars>>

NextLinks ==
    AnalyzeLink \/ ReturnLinks \/ AnalyzeContent \/ Score \/ Recommend \/ Return

SpecLinks == InitLinks /\ [][NextLinks]_vars

----------------------------------------------------------------------------
(* Properties.  Scored holds once line 565 has run, Advised once lines     *)
(* 566-568 have run as well.                                               *)

Scored  == pc \in {"scored", "advised", "done"}
Advised == pc \in {"advised", "done"}

Range(list) == { list[i] : i \in DOMAIN list }

\* the labels of a score breakdown
Labels(breakdown) == { e.label : e \in Range(breakdown) }

\* the points a breakdown gives under a label, none when the label is absent
Points(breakdown, label) ==
    IF label \in Labels(breakdown)
    THEN (CHOOSE e \in Range(breakdown) : e.label = label).points
    ELSE 0

GapLabels     == {"Zero contextual links", "Link deficit"}
DensityLabels == {"Low density", "Over-linking"}
FactorLabels  ==
    GapLabels \cup DensityLabels
        \cup {"Page type priority", "Duplicate links", "Deep page"}

(* C1. Whatever the word count, the link counts, the page category and the *)
(* URL depth, the score calculateContextualOpportunity returns is a whole  *)
(* number from 0 to 100.                                                   *)
ScoreInBounds ==
    Scored => opportunityAnalysis.score \in 0..100

\* a page past the early exits on which every factor that can fire together
\* has fired: no links (40), low density (15), homepage (20), depth (10)
ScoreAtAdditiveMaximum ==
    /\ pc = "scored"
    /\ contentData.words >= config.MIN_WORDS_FOR_LINKS
    /\ Len(opportunityAnalysis.scoreBreakdown) = 4
    /\ opportunityAnalysis.score = 85

(* C2. The early exits are fixed: below 10 words the score is 90 and the   *)
(* severity critical, from 10 words to below MIN_WORDS_FOR_LINKS the score *)
(* is 50 and the severity medium, whatever the links, the page category    *)
(* and the depth; none of the five additive factors is in the breakdown.   *)
EarlyExitsFixed ==
    Scored =>
        LET words     == contentData.words
            breakdown == opportunityAnalysis.scoreBreakdown
            severity  == opportunityAnalysis.gapAnalysis.severity
        IN  /\ words < 10 =>
                /\ opportunityAnalysis.score = 90
                /\ severity = "critical"
                /\ breakdown = <<Entry("Critical: Broken/empty page", 90)>>
            /\ (10 <= words /\ words < config.MIN_WORDS_FOR_LINKS) =>
                /\ opportunityAnalysis.score = 50
                /\ severity = "medium"
                /\ breakdown = <<Entry("Thin content penalty", 50)>>
            /\ words < config.MIN_WORDS_FOR_LINKS =>
                Labels(breakdown) \cap FactorLabels = {}

\* a deep homepage of 25 words and no links, scored 50
ThinPageWhereFactorsWouldFire ==
    /\ pc = "scored"
    /\ contentData.words = 25
    /\ linkData.contextual = 0
    /\ pageType = "homepage"
    /\ urlDepth > 3
    /\ opportunityAnalysis.score = 50

(* C3. Every assessment, the early exits included, recommends at least one *)
(* link, namely max(1, floor(words / CONTEXTUAL_LINK_TARGET)).             *)
RecommendedLinksAtLeastOne ==
    Scored =>
        LET recommended == opportunityAnalysis.gapAnalysis.recommendedLinks
        IN  /\ recommended >= 1
            /\ recommended =
                 Max(1, contentData.words \div config.CONTEXTUAL_LINK_TARGET)

(* C4. From MIN_WORDS_FOR_LINKS words on, the gap factor and the severity  *)
(* follow the branch taken: no contextual link gives 40 points and         *)
(* critical; fewer links than ideal gives min(30, 8 * deficit) points and  *)
(* high when the deficit is 3 or more, medium otherwise; ideal or more     *)
(* gives no points, severity none and no gap.                              *)
GapSeverityByBranch ==
    (Scored /\ contentData.words >= config.MIN_WORDS_FOR_LINKS) =>
        LET ideal     == Max(1, contentData.words
                                  \div config.CONTEXTUAL_LINK_TARGET)
            actual    == linkData.contextual
            breakdown == opportunityAnalysis.scoreBreakdown
            gap       == opportunityAnalysis.gapAnalysis
        IN  /\ actual = 0 =>
                /\ Points(breakdown, "Zero contextual links") = 40
                /\ "Link deficit" \notin Labels(breakdown)
                /\ gap.severity = "critical"
                /\ gap.hasGap
            /\ (0 < actual /\ actual < ideal) =>
                /\ "Link deficit" \in Labels(breakdown)
                /\ Points(breakdown, "Link deficit") = Min(30, 8 * (ideal - actual))
                /\ "Zero contextual links" \notin Labels(breakdown)
                /\ gap.severity = (IF ideal - actual >= 3 THEN "high" ELSE "medium")
                /\ gap.hasGap
            /\ actual >= ideal =>
                /\ Labels(breakdown) \cap GapLabels = {}
                /\ gap.severity = "none"
                /\ ~gap.hasGap

\* the blog article of 400 words and no contextual links
ZeroLinkBlogArticle ==
    /\ pc = "scored"
    /\ contentData.words = 400
    /\ linkData.contextual = 0
    /\ pageType = "blog-article"
    /\ opportunityAnalysis.gapAnalysis.severity = "critical"
    /\ opportunityAnalysis.gapAnalysis.recommendedLinks = 4
    /\ opportunityAnalysis.score >= 40

(* C5. Whatever the density thresholds are set to, a breakdown holds at    *)
(* most one of the low-density and over-linking entries, so density adds   *)
(* 0, 15 or 20 points.                                                     *)
AtMostOneDensityBonus ==
    Scored =>
        LET breakdown == opportunityAnalysis.scoreBreakdown
        IN  /\ ~(DensityLabels \subseteq Labels(breakdown))
            /\ Points(breakdown, "Low density")
                 + Points(breakdown, "Over-linking") \in {0, 15, 20}

\* a page past the early exits whose density is within the thresholds, whose
\* unique ratio is 0.7 or more and which meets the minimum of its category
Balanced ==
    /\ contentData.words >= config.MIN_WORDS_FOR_LINKS
    /\ linkData.contextual * 1000
          >= config.MIN_CONTEXTUAL_DENSITY * contentData.words
    /\ linkData.contextual * 1000
          <= config.MAX_CONTEXTUAL_DENSITY * contentData.words
    /\ linkData.uniqueContextual * 10 >= 7 * linkData.contextual
    /\ pageType \in DOMAIN pageTypeWeights =>
          linkData.contextual >= pageTypeWeights[pageType].minLinks

\* no gap and no density points, and the score is the depth penalty alone
DepthPenaltyOnly ==
    /\ Labels(opportunityAnalysis.scoreBreakdown)
          \cap (GapLabels \cup DensityLabels) = {}
    /\ opportunityAnalysis.score =
          (IF urlDepth > 3 THEN Min(10, 3 * (urlDepth - 3)) ELSE 0)

(* C6, as stated.  On a balanced page no gap and no density points are     *)
(* added and the score is exactly the URL-depth penalty.                   *)
BalancedPageScoresDepthOnly ==
    (Scored /\ Balanced) => DepthPenaltyOnly

(* C6, amended.  On a balanced page that has at least its ideal number of  *)
(* contextual links, max(1, floor(words / CONTEXTUAL_LINK_TARGET)), no gap *)
(* and no density points are added and the score is exactly the URL-depth  *)
(* penalty.                                                                *)
BalancedPageWithoutDeficitScoresDepthOnly ==
    (/\ Scored
     /\ Balanced
     /\ linkData.contextual >=
            Max(1, contentData.words \div config.CONTEXTUAL_LINK_TARGET))
        => DepthPenaltyOnly

\* a balanced blog article five levels deep: 200 words, 3 links, 6 points
BalancedDeepPage ==
    /\ pc = "scored"
    /\ Balanced
    /\ contentData.words = 200
    /\ linkData.contextual = 3
    /\ pageType = "blog-article"
    /\ urlDepth = 5
    /\ opportunityAnalysis.score = 6

(* C7. Past the early exits the duplicate penalty is in the breakdown, for *)
(* 15 points, exactly when there are more than 5 contextual links and the  *)
(* unique ratio is below 0.7; the diversity reported is 100 * unique /     *)
(* contextual rounded to the nearest whole percentage (a half upwards),    *)
(* and 'N/A' without contextual links.                                     *)
DuplicatePenaltyAndRoundedDiversity ==
    Advised =>
        LET actual    == linkData.contextual
            unique    == linkData.uniqueContextual
            breakdown == opportunityAnalysis.scoreBreakdown
        IN  /\ contentData.words >= config.MIN_WORDS_FOR_LINKS =>
                /\ "Duplicate links" \in Labels(breakdown)
                      <=> (actual > 5 /\ unique * 10 < 7 * actual)
                /\ Points(breakdown, "Duplicate links") \in {0, 15}
            /\ linkDiversity.na <=> actual = 0
            /\ actual > 0 =>
                linkDiversity.percent = (200 * unique + actual) \div (2 * actual)

\* the entry of the opportunities list that comes with a breakdown entry
OpportunityOf(label) ==
    CASE label = "Critical: Broken/empty page" -> "CRITICAL"
      [] label = "Thin content penalty"        -> "THIN CONTENT"
      [] label = "Zero contextual links"       -> "CRITICAL GAP"
      [] label = "Link deficit"                -> "LINK GAP"
      [] label = "Low density"                 -> "LOW DENSITY"
      [] label = "Over-linking"                -> "OVER-LINKED"
      [] label = "Page type priority"          -> "PAGE TYPE"
      [] label = "Duplicate links"             -> "DUPLICATE LINKS"
      [] label = "Deep page"                   -> "DEEP PAGE"

\* the opportunities that fired: one for every entry of the full breakdown
FiredOpportunities ==
    { OpportunityOf(l) : l \in Labels(opportunityAnalysis.scoreBreakdown) }

\* the recommendations whose condition holds on the page
FiredRecommendations ==
    LET words   == contentData.words
        actual  == linkData.contextual
        unique  == linkData.uniqueContextual
        gap     == opportunityAnalysis.gapAnalysis
        dense   == actual * 1000 > 30 * words
        repeats == unique * 10 < 7 * Max(actual, 1)
    IN  IF words < 10 THEN {"BROKEN PAGE"}
        ELSE IF words < 50 /\ pageType = "blog-article" THEN {"BLOG FAILURE"}
        ELSE
            (IF externalBalance # "BALANCED" THEN {"LINK BALANCE"} ELSE {})
            \cup (IF actual > 5 /\ repeats
                  THEN {"REMOVE DUPLICATE LINKS"} ELSE {})
            \cup (IF dense THEN {"REDUCE LINKS"} ELSE {})
            \cup (IF ~gap.hasGap THEN {}
                  ELSE IF gap.severity = "critical" THEN {"ADD CONTEXTUAL LINKS"}
                  ELSE IF gap.severity = "high" THEN {"ADD MORE LINKS"}
                  ELSE {"OPTIMIZE"})
            \cup (IF pageType = "homepage" /\ actual > 10
                     /\ unique * 10 < 8 * actual
                  THEN {"HOMEPAGE FOCUS"} ELSE {})
            \cup (IF pageType = "homepage" /\ contentData.quality = "thin"
                  THEN {"HOMEPAGE CONTENT"} ELSE {})
            \cup (IF ~dense /\ ~repeats /\ gap.hasGap
                     /\ pageType \in {"trading-pair", "crypto-specific",
                                      "learn-hub", "blog-article",
                                      "market-data", "homepage"}
                  THEN {"SPECIFIC IDEAS"} ELSE {})

RecommendationTags ==
    [ i \in DOMAIN recommendations |-> recommendations[i].tag ]

\* the stated precedence: broken page (1), external imbalance (2), duplicate
\* links (3), over-linking (4), primary gap (5), category-specific (6),
\* content expansion (7); an entry the statement does not name is put where
\* the script's order agrees with it
StatedClass(tag) ==
    CASE tag \in {"CRITICAL", "BROKEN PAGE", "BLOG FAILURE"}      -> 1
      [] tag = "LINK BALANCE"                                     -> 2
      [] tag \in {"DUPLICATE LINKS", "REMOVE DUPLICATE LINKS"}    -> 3
      [] tag \in {"OVER-LINKED", "REDUCE LINKS"}                  -> 4
      [] tag \in {"CRITICAL GAP", "LINK GAP", "ADD CONTEXTUAL LINKS",
                  "ADD MORE LINKS", "OPTIMIZE"}                   -> 5
      [] tag \in {"PAGE TYPE", "HOMEPAGE FOCUS", "HOMEPAGE CONTENT",
                  "SPECIFIC IDEAS"}                               -> 6
      [] tag \in {"THIN CONTENT", "DEEP PAGE"}                    -> 7

\* low density is not among the classes named; it is left out of the order
Classed(tags) == { t \in tags : t # "LOW DENSITY" }

\* at most 3 entries, never a lower class before a higher one, and never a
\* fired entry dropped while an entry of a lower class is kept
InStatedPrecedence(list, fired) ==
    /\ Len(list) <= 3
    /\ \A i, j \in DOMAIN list :
          (i < j /\ {list[i], list[j]} \subseteq Classed(Range(list)))
              => StatedClass(list[i]) <= StatedClass(list[j])
    /\ \A t \in Classed(fired \ Range(list)) :
          \A k \in Classed(Range(list)) : StatedClass(k) <= StatedClass(t)

(* C8, as stated.  The opportunities and the recommendations hold at most  *)
(* 3 entries each, the highest in the precedence broken page > external    *)
(* imbalance > duplicate links > over-linking > primary gap >              *)
(* category-specific > content expansion among those that fired, in that   *)
(* order.                                                                  *)
ListsInStatedPrecedence ==
    Advised =>
        /\ InStatedPrecedence(opportunityAnalysis.opportunities,
                              FiredOpportunities)
        /\ InStatedPrecedence(RecommendationTags, FiredRecommendations)

\* the order in which the scorer appends its opportunities
OpportunityRank(tag) ==
    CASE tag \in {"CRITICAL", "THIN CONTENT"} -> 0
      [] tag \in {"CRITICAL GAP", "LINK GAP"} -> 1
      [] tag = "LOW DENSITY"                  -> 2
      [] tag = "OVER-LINKED"                  -> 3
      [] tag = "PAGE TYPE"                    -> 4
      [] tag = "DUPLICATE LINKS"              -> 5
      [] tag = "DEEP PAGE"                    -> 6

\* the order in which the generator appends its recommendations
RecommendationRank(tag) ==
    CASE tag \in {"BROKEN PAGE", "BLOG FAILURE"} -> 0
      [] tag = "LINK BALANCE"                    -> 1
      [] tag = "REMOVE DUPLICATE LINKS"          -> 2
      [] tag = "REDUCE LINKS"                    -> 3
      [] tag \in {"ADD CONTEXTUAL LINKS", "ADD MORE LINKS", "OPTIMIZE"} -> 4
      [] tag = "HOMEPAGE FOCUS"                  -> 5
      [] tag = "HOMEPAGE CONTENT"                -> 6
      [] tag = "SPECIFIC IDEAS"                  -> 7

\* the list is the first 3 of the fired entries in the order of rank
FirstThree(list, fired, rank(_)) ==
    /\ Len(list) <= 3
    /\ Range(list) \subseteq fired
    /\ \A i, j \in DOMAIN list : i < j => rank(list[i]) < rank(list[j])
    /\ \A t \in fired \ Range(list) :
          Len(list) = 3 /\ rank(list[3]) < rank(t)

(* C8, amended.  The opportunities and the recommendations hold at most 3  *)
(* entries each: the first three that fired, the opportunities in the      *)
(* order gap > low density > over-linking > page type > duplicate links >  *)
(* deep page (an early exit gives its one entry), the recommendations in   *)
(* the order broken page or blog failure (alone) > external imbalance >    *)
(* duplicate links > over-linking > primary gap > homepage focus >         *)
(* homepage content > specific ideas.                                      *)
ListsInScriptPrecedence ==
    Advised =>
        /\ FirstThree(opportunityAnalysis.opportunities, FiredOpportunities,
                      OpportunityRank)
        /\ FirstThree(RecommendationTags, FiredRecommendations,
                      RecommendationRank)

\* a page on which four factors and four recommendations fired, so that each
\* list lost its last entry
BothListsTruncated ==
    /\ pc = "advised"
    /\ Cardinality(FiredOpportunities) = 4
    /\ Len(opportunityAnalysis.opportunities) = 3
    /\ Cardinality(FiredRecommendations) = 4
    /\ Len(recommendations) = 3

QualityRank(quality) ==
    CASE quality = "thin" -> 1 [] quality = "medium" -> 2 [] quality = "high" -> 3

\* the classification as stated: by the two thresholds, then a medium
\* promoted for structure, then a high demoted for want of headings
StatedQuality(words, headings, paragraphs) ==
    LET byWords  == IF words < config.THIN_CONTENT_THRESHOLD THEN 1
                    ELSE IF words < config.MEDIUM_CONTENT_THRESHOLD THEN 2
                    ELSE 3
        promoted == IF byWords = 2 /\ headings >= 3 /\ paragraphs >= 4
                    THEN 3 ELSE byWords
    IN  IF promoted = 3 /\ headings < 2 THEN 2 ELSE promoted

LinkSetConsistent ==
    pc # "links" =>
        /\ linkAnalysis.contextual = Len(linkAnalysis.contextualLinks)
        /\ linkAnalysis.uniqueContextual
              \subseteq { l.href : l \in Range(linkAnalysis.contextualLinks) }
        /\ Cardinality(linkAnalysis.uniqueContextual) <= linkAnalysis.contextual
        /\ linkAnalysis.template = linkAnalysis.navigation + linkAnalysis.footer
        /\ linkAnalysis.template = Len(linkAnalysis.templateLinks)
        /\ linkAnalysis.nofollow <= linkAnalysis.contextual

\* a page with one target linked twice from the content, once not followed,
\* and a link in the footer that is not followed either
PageWithRepeatedAndFooterLinks ==
    /\ pc = "content"
    /\ linkAnalysis.contextual = 2
    /\ Cardinality(linkAnalysis.uniqueContextual) = 1
    /\ linkAnalysis.nofollow = 1
    /\ linkAnalysis.footer = 1
    /\ \E l \in Range(linkAnalysis.templateLinks) : l.href = "/terms"

\* the host of an absolute URL: what stands between "://" and the next
\* "/", "?" or "#"
HostOf(href) ==
    LET starts == { i \in 1..(Len(href) - 2) : SubSeq(href, i, i + 2) = "://" }
        from   == (CHOOSE i \in starts : \A j \in starts : i <= j) + 3
        ends   == { i \in from..Len(href) : CharAt(href, i) \in {"/", "?", "#"} }
        to     == IF ends = {} THEN Len(href)
                  ELSE (CHOOSE i \in ends : \A j \in ends : i <= j) - 1
    IN  IF starts = {} THEN "" ELSE SubSeq(href, from, to)

Absolute(href) == StartsWith(href, "http://") \/ StartsWith(href, "https://")

\* internal as stated: root-relative, query-relative, or absolute on the
\* page's host
StatedInternal(href) ==
    \/ StartsWith(href, "/")
    \/ StartsWith(href, "?")
    \/ (Absolute(href) /\ HostOf(href) = domain)

(* C11. A link is counted as internal (contextual or template) exactly when *)
(* its href is root-relative, query-relative or absolute on the page's     *)
(* host; an absolute URL on another host is counted as external, whatever  *)
(* its path or query holds.                                                *)
InternalIffSameHost ==
    [][(pc = "links" /\ allLinks # <<>> /\ Head(allLinks).href \notin {"", "#"}) =>
          LET href == Head(allLinks).href
              countedInternal ==
                  linkAnalysis'.contextual + linkAnalysis'.template
                      = linkAnalysis.contextual + linkAnalysis.template + 1
              countedExternal ==
                  linkAnalysis'.external = linkAnalysis.external + 1
          IN  /\ countedInternal <=> StatedInternal(href)
              /\ (Absolute(href) /\ HostOf(href) # domain) => countedExternal
      ]_vars

----------------------------------------------------------------------------
(* The size of the gap and the reach of the score *)

(* C29. Whenever the scorer reports a gap, the size of the gap,            *)
(* recommendedLinks - currentLinks, is above zero, and so is the number    *)
(* the report shows as 'Link Gap'.                                         *)
ReportedGapPositive ==
    /\ Scored =>
          (opportunityAnalysis.gapAnalysis.hasGap =>
              opportunityAnalysis.gapAnalysis.recommendedLinks
                 - opportunityAnalysis.gapAnalysis.currentLinks > 0)
    /\ pc = "done" =>
          (~contextualLinkData.LinkGap.none =>
              contextualLinkData.LinkGap.missing > 0)

\* the points of a score breakdown, added up
RECURSIVE AddedUp(_)
AddedUp(breakdown) ==
    IF breakdown = <<>> THEN 0
    ELSE Head(breakdown).points + AddedUp(Tail(breakdown))

(* C30. Under the default configuration the factors exclude each other:    *)
(* the over-linking penalty never comes with points for the gap, the       *)
(* duplicate penalty never comes with a category weight, the sum of the    *)
(* points stays below the clamp at 100, and the score is at most 90: 90    *)
(* only for a page of fewer than 10 words, at most 85 otherwise.           *)
FactorsExcludeEachOther ==
    Scored =>
        LET breakdown == opportunityAnalysis.scoreBreakdown
            labels    == Labels(breakdown)
        IN  /\ ~("Over-linking" \in labels /\ labels \cap GapLabels # {})
            /\ ~("Duplicate links" \in labels /\ "Page type priority" \in labels)
            /\ AddedUp(breakdown) < 100
            /\ opportunityAnalysis.score = AddedUp(breakdown)
            /\ opportunityAnalysis.score <= 90
            /\ contentData.words >= 10 => opportunityAnalysis.score <= 85

\* a deep homepage of 50 words or more without a contextual link scores 85
DeepHomepageWithoutLinks ==
    /\ Scored
    /\ contentData.words >= config.MIN_WORDS_FOR_LINKS
    /\ linkData.contextual = 0
    /\ pageType = "homepage"
    /\ Labels(opportunityAnalysis.scoreBreakdown) =
          {"Zero contextual links", "Low density", "Page type priority", "Deep page"}
    /\ opportunityAnalysis.score = 85

----------------------------------------------------------------------------
(* Links by the shape of their ancestor chain *)

\* containers a template rule matches: a table cell, a navigation class, a
\* footer, an explicit navigation role, and a block that is a widget and a
\* footer at once
Containers ==
    { Node("TD", "", "", ""), Node("DIV", "Main-Nav", "", ""),
      Node("FOOTER", "", "", ""), Node("DIV", "", "", "navigation"),
      Node("SECTION", "site-footer widget", "", "") }

\* elements that indicate written content
Indicators == { Paragraph, Node("DIV", "Entry-Content", "", "") }

\* the ancestors of a link, the parent first: divisions, but for the
\* container at level k and the indicator at level p (0: none)
Ancestors(k, container, p, indicator) ==
    [ i \in 1..Max(k, p) |->
        IF i = k THEN container ELSE IF i = p THEN indicator ELSE Division ]

ShapedLinks ==
    { Link(href, "", text, className, Ancestors(k, container, p, indicator)) :
        href \in {"/learn/staking", "/trade/BTC-INR"},
        text \in {"staking guide", "ETH-USDT"},
        className \in {"", "entry-content-link", "footer-link"},
        k \in 0..MaxLevel, container \in Containers,
        p \in 0..3, indicator \in Indicators }

\* a page of one link
InitContext ==
    /\ config = CONFIG
    /\ pc = "links"
    /\ allLinks \in { <<link>> : link \in ShapedLinks \cup PageLinks }
    /\ linkAnalysis = EmptyLinkAnalysis
    /\ linkData = NoValue
    /\ contentElement \in Elements({400}, {MaxHeadings}, {MaxParagraphs})
    /\ pageType = "blog-article"
    /\ urlDepth = 0
    /\ Unread
    /\ SemanticIdle
    /\ VectorIdle

SpecContext == InitContext /\ [][NextLinks]_vars

\* the link about to be visited is internal and not a placeholder
VisitsInternal ==
    /\ pc = "links"
    /\ allLinks # <<>>
    /\ Head(allLinks).href \notin {"", "#"}
    /\ IsInternal(Head(allLinks).href)

\* rule (a): the address or the text of the link is a trading pair
InterfacePattern(link) ==
    \/ (TradingPath(link.href) /\ PairPath(link.href))
    \/ PairText(trim(link.text))

\* the places of the chain the first walk looks at that a rule (b)-(e) matches
TemplateMatches(link) ==
    { i \in 1..Min(5, BodyAt(link) - 1) : TemplateRule(Chain(link)[i]) # "none" }

\* the second walk finds a strong content indicator
Indicated(link) ==
    \E i \in 1..Min(3, Len(Chain(link))) : ContentIndicator(Chain(link)[i])

FiveAncestorLevelsWalked ==
    [][VisitsInternal =>
        LET link == Head(allLinks)
        IN  (\E k \in 1..5 :
                /\ k <= Len(link.ancestors)
                /\ TemplateRule(link.ancestors[k]) # "none")
              => /\ linkAnalysis'.contextual = linkAnalysis.contextual
                 /\ linkAnalysis'.template = linkAnalysis.template + 1
      ]_vars

----------------------------------------------------------------------------
(* The semantic analysis script (src/scremingfrog/semantic.js)             *)
(*                                                                         *)
(* The run is executeSemanticAIAnalysis: it builds a SemanticAIAnalyzer,   *)
(* probes the embedding service, and awaits performSemanticAnalysis.  The  *)
(* script is single-threaded, so one action is the code between two        *)
(* answers of the service: it receives the answer to the request it        *)
(* awaits and runs on to the next request or to the end.  The service is   *)
(* outside the script: each answer is a free choice between a success, a   *)
(* non-success status and a failed fetch, and a success carries a vector   *)
(* of whatever length the model behind the endpoint produces.  Of a        *)
(* vector the model keeps the length; a cosine similarity between vectors  *)
(* of one length is a free choice among Similarities, in hundredths.       *)
(* Record fields are named as the report's keys without the spaces.        *)

\* lines 8-39, thresholds in hundredths
SEMANTIC_CONFIG ==
    [ OLLAMA_ENDPOINT          |-> "http://localhost:11434",
      OLLAMA_MODEL             |-> "nomic-embed-text",
      TIMEOUT                  |-> 30000,
      MAX_RETRIES              |-> 3,
      SIMILARITY_THRESHOLD     |-> 85,
      MAX_CONTENT_LENGTH       |-> 8192,
      MIN_CONTENT_WORDS        |-> 100,
      BATCH_SIZE               |-> 20,
      RATE_LIMIT_DELAY         |-> 150,
      MAX_SUGGESTIONS_PER_PAGE |-> 5 ]

\* null, where a vector may stand
Null == [ defined |-> FALSE, length |-> 0 ]

\* a vector of the given length
Vector(length) == [ defined |-> TRUE, length |-> length ]

\* lines 45-62
NewAnalyzer ==
    [ config       |-> SEMANTIC_CONFIG,
      cache        |-> {},
      embeddings   |-> {},
      clusters     |-> {},
      siteCentroid |-> Null,
      metrics      |-> [ embeddingGenerations   |-> 0,
                         similarityCalculations |-> 0 ] ]

\* the lengths of the vectors the service may answer with
Dimensions == {384, 768}

\* the cosine similarities of two vectors of one length, in hundredths
Similarities == {50, 90}

\* what a fetch may come to: a response, ok or not, or a failed fetch
Responses ==
    { [ thrown |-> FALSE, ok |-> TRUE, status |-> 200, length |-> d ] :
        d \in Dimensions }
    \cup { [ thrown |-> FALSE, ok |-> FALSE, status |-> 500, length |-> 0 ],
           [ thrown |-> TRUE,  ok |-> FALSE, status |-> 0,   length |-> 0 ] }

\* the milliseconds the script lets pass between the answer to a request
\* and its next request: each fetch follows the await before it at once,
\* no timer is set anywhere and RATE_LIMIT_DELAY is read nowhere
Waited == 0

\* a request as the service sees it, whether it was answered with success,
\* and how long the script waited before sending it
Request(path, prompt, ok) ==
    [ path |-> path, prompt |-> prompt, ok |-> ok, waited |-> Waited ]

\* the service after one more request and its answer
Asked(service, path, prompt, response) ==
    [ requests |-> Append(service.requests,
                      Request(path, prompt, ~response.thrown /\ response.ok)) ]

\* the number of embeddings the service has returned
Answered(service) ==
    Cardinality({ i \in 1..Len(service.requests) :
        service.requests[i].path = "/api/embeddings" /\ service.requests[i].ok })

\* String.prototype.slice(0, n)
SliceFirst(str, n) == SubSeq(str, 1, Min(n, Len(str)))

\* lines 334-362: one fetch; a failed fetch or a non-success status is
\* thrown on to the caller
generateEmbedding(response) ==
    IF response.thrown
    THEN [ threw |-> TRUE, message |-> "Failed to fetch", length |-> 0 ]
    ELSE IF ~response.ok
    THEN [ threw |-> TRUE, message |-> "Ollama API error: 500", length |-> 0 ]
    ELSE [ threw |-> FALSE, message |-> "", length |-> response.length ]

\* lines 336-349: the analyzer and the service after _generateEmbedding
Generated(analyzer) ==
    [analyzer EXCEPT !.metrics.embeddingGenerations = @ + 1]

Prompted(service, prompt, response) ==
    Asked(service, "/api/embeddings",
          SliceFirst(prompt, SEMANTIC_CONFIG.MAX_CONTENT_LENGTH), response)

\* lines 364-369: the lengths are compared before anything is computed
DimensionMismatch(lengthA, lengthB) == lengthA # lengthB

Compared(analyzer) ==
    [analyzer EXCEPT !.metrics.similarityCalculations = @ + 1]

\* the decimal digit d as a character
Digit(d) == SubSeq("0123456789", d + 1, d + 1)

\* Number.prototype.toFixed(4) of a similarity in hundredths
ToFixed4(hundredths) ==
    IF hundredths = 100 THEN "1.0000"
    ELSE "0." \o Digit(hundredths \div 10) \o Digit(hundredths % 10) \o "00"

\* line 435: cleanText.split(/\s+/).filter(word => word.length > 2).length,
\* for text whose words are separated by single spaces
CountWords(cleanText) ==
    Cardinality({ i \in 1..(Len(cleanText) - 2) :
        /\ (i = 1 \/ CharAt(cleanText, i - 1) = " ")
        /\ \A k \in i..(i + 2) : CharAt(cleanText, k) # " " })

\* content.toLowerCase().includes(part), for a part in lower case
IncludesLower(content, part) ==
    \E i \in 1..(Len(content) - Len(part) + 1) :
        \A k \in 1..Len(part) :
            LowerOf(CharAt(content, i + k - 1)) = CharAt(part, k)

\* lines 444-456
identifyPageType(content) ==
    IF IncludesLower(content, "trade") \/ IncludesLower(content, "trading")
    THEN "trading"
    ELSE IF IncludesLower(content, "learn") \/ IncludesLower(content, "education")
    THEN "educational"
    ELSE IF IncludesLower(content, "security") \/ IncludesLower(content, "safety")
    THEN "security"
    ELSE IF IncludesLower(content, "about") \/ IncludesLower(content, "company")
    THEN "about"
    ELSE IF IncludesLower(content, "blog") \/ IncludesLower(content, "news")
    THEN "blog"
    ELSE IF IncludesLower(content, "support") \/ IncludesLower(content, "help")
    THEN "support"
    ELSE IF IncludesLower(content, "legal") \/ IncludesLower(content, "terms")
    THEN "legal"
    ELSE "general"

\* lines 419-442 and 406-411, on the text of the element once its
\* whitespace is collapsed
cleanTextContent(textContent) ==
    LET cleanText == trim(textContent)
    IN  [ cleanText |-> cleanText,
          words     |-> CountWords(cleanText),
          pageType  |-> identifyPageType(cleanText) ]

\* the elements of a set of numbers in increasing order
Ascending(S) ==
    [ k \in 1..Cardinality(S) |->
        CHOOSE x \in S : Cardinality({ y \in S : y < x }) = k - 1 ]

SentenceEnds == {".", "!", "?"}

\* line 698: text.split(/[.!?]+/).filter(s => s.trim().length > 20).slice(0, 10)
extractSentences(str) ==
    LET starts == { i \in 1..Len(str) :
                      /\ CharAt(str, i) \notin SentenceEnds
                      /\ (i = 1 \/ CharAt(str, i - 1) \in SentenceEnds) }
        ends   == { i \in 1..Len(str) :
                      /\ CharAt(str, i) \notin SentenceEnds
                      /\ (i = Len(str) \/ CharAt(str, i + 1) \in SentenceEnds) }
        EndOf(i) == CHOOSE j \in ends : j >= i /\ \A k \in ends : k >= i => j <= k
        order  == Ascending(starts)
        pieces == [ k \in 1..Len(order) |-> SubSeq(str, order[k], EndOf(order[k])) ]
        long   == SelectSeq(pieces, LAMBDA piece : Len(trim(piece)) > 20)
    IN  SubSeq(long, 1, Min(10, Len(long)))

\* lines 472-500, each page by its url and content
getCommonPageTypes ==
    << [ url     |-> "https://www.giottus.com/trade",
         content |-> "Advanced trading platform with real-time charts, order books, and professional trading tools for Bitcoin, Ethereum, and other cryptocurrencies." ],
       [ url     |-> "https://www.giottus.com/security",
         content |-> "Multi-layer security with cold storage, 2FA, insurance coverage, and regulatory compliance to protect your cryptocurrency investments." ],
       [ url     |-> "https://www.giottus.com/learn",
         content |-> "Comprehensive guides on cryptocurrency basics, blockchain technology, trading strategies, and market analysis for beginners and experts." ],
       [ url     |-> "https://www.giottus.com/fees",
         content |-> "Clear and competitive fee structure for cryptocurrency trading, deposits, withdrawals, and premium features with no hidden charges." ] >>

\* line 504: new Array(768)
CentroidLength == 768

\* lines 656-661
classifyRelationship(similarity) ==
    IF similarity > 95 THEN "DUPLICATE"
    ELSE IF similarity > 85 THEN "HIGHLY_RELATED"
    ELSE IF similarity > 75 THEN "RELATED"
    ELSE "LOOSELY_RELATED"

\* lines 672-676
classifyConsistency(score) ==
    IF score > 80 THEN "HIGH" ELSE IF score > 60 THEN "MEDIUM" ELSE "LOW"

\* line 153: sort((a, b) => b.similarity - a.similarity), a stable sort
RECURSIVE SortBySimilarity(_)
SortBySimilarity(list) ==
    IF list = <<>> THEN <<>>
    ELSE LET sorted == SortBySimilarity(SubSeq(list, 1, Len(list) - 1))
             last   == list[Len(list)]
             before == SelectSeq(sorted, LAMBDA e : e.similarity >= last.similarity)
             after  == SelectSeq(sorted, LAMBDA e : e.similarity < last.similarity)
         IN  before \o <<last>> \o after

\* lines 520-543: 25 * min(words / 1000, 1) + 21.25 + 22.5 + 20, in fortieths
TotalScore40(content) == Min(content.words, 1000) + 2550

calculateSemanticScore(content) ==
    [ overallScore |-> (TotalScore40(content) + 20) \div 40,
      grade        |-> IF TotalScore40(content) >= 3600 THEN "A+"
                       ELSE IF TotalScore40(content) >= 3200 THEN "A"
                       ELSE IF TotalScore40(content) >= 2800 THEN "B"
                       ELSE IF TotalScore40(content) >= 2400 THEN "C"
                       ELSE "D" ]

\* lines 309-311 with 789-819: the number of missing topics; no expected
\* topic is among the topic names _extractContentTopics returns
MissingTopics(content) ==
    IF content.pageType \in {"trading", "security", "educational", "about"}
    THEN 5 ELSE 3

\* lines 625-630
determineActionPriority(content, sections, score) ==
    IF score.overallScore < 60 THEN "HIGH"
    ELSE IF ~sections.intelligentLinkSuggestions.failed
            /\ sections.intelligentLinkSuggestions.totalSuggestions > 3
    THEN "MEDIUM"
    ELSE IF MissingTopics(content) > 2 THEN "MEDIUM"
    ELSE "LOW"

\* lines 571-623, with lines 97-108
formatForScreamingFrog(url, content, vec, sections) ==
    LET score == calculateSemanticScore(content)
        theme == sections.contentThemeConsistency
        links == sections.intelligentLinkSuggestions
        similar == sections.semanticSimilarity
    IN  [ URL                 |-> url,
          PageType            |-> content.pageType,
          ContentWords        |-> content.words,
          SemanticScore       |-> score.overallScore,
          SemanticGrade       |-> score.grade,
          ThemeAlignment      |-> IF theme.failed THEN "N/A"
                                  ELSE ToFixed4(theme.themeAlignment),
          ConsistencyLevel    |-> IF theme.failed THEN "UNKNOWN"
                                  ELSE classifyConsistency(theme.themeAlignment),
          SimilarPagesFound   |-> Len(similar),
          TopSimilarPage      |-> IF similar = <<>> THEN "None" ELSE similar[1].url,
          LinkSuggestions     |-> IF links.failed THEN 0 ELSE links.totalSuggestions,
          SuggestionPriority  |-> IF links.failed THEN "N/A"
                                  ELSE IF links.totalSuggestions > 0 THEN "HIGH"
                                  ELSE "LOW",
          SemanticCluster     |-> "UNCLUSTERED",
          ClusterSize         |-> 0,
          ContentGaps         |-> MissingTopics(content),
          ActionPriority      |-> determineActionPriority(content, sections, score),
          ModelUsed           |-> SEMANTIC_CONFIG.OLLAMA_MODEL,
          AnalysisDepth       |-> "COMPREHENSIVE",
          EmbeddingDimensions |-> vec.length,
          Status              |-> "SEMANTIC_ANALYSIS_COMPLETE" ]

\* lines 632-642
generateBasicAnalysis(url, content) ==
    [ URL            |-> url,
      Status         |-> "INSUFFICIENT_CONTENT",
      ContentWords   |-> content.words,
      SemanticScore  |-> "N/A",
      AnalysisDepth  |-> "BASIC",
      Recommendation |-> "Add more content for semantic analysis",
      ActionPriority |-> "HIGH" ]

\* an error record that names the failure and advises nothing
HandleAnalysisErrorWithoutAdvice(url, message) ==
    [ URL            |-> url,
      Status         |-> "ANALYSIS_ERROR",
      ErrorMessage   |-> message,
      SemanticScore  |-> "ERROR",
      ActionPriority |-> "HIGH" ]

\* lines 644-653
handleAnalysisError(url, message) ==
    [ URL            |-> url,
      Status         |-> "ANALYSIS_ERROR",
      ErrorMessage   |-> message,
      SemanticScore  |-> "ERROR",
      Recommendation |-> "Check Ollama connection and retry",
      ActionPriority |-> "HIGH" ]

----------------------------------------------------------------------------
(* The pages the semantic analysis runs on *)

RECURSIVE Repeat(_, _)
Repeat(str, n) == IF n = 0 THEN "" ELSE str \o Repeat(str, n - 1)

\* a sentence of nine words longer than two characters
Sentence == "Trade bitcoin and ethereum on a secure exchange with low fees. "

\* the text of the content element: none, a line, one word short of the
\* floor, at the floor without a full stop, a paragraph that repeats a
\* sentence, and two sentences that differ
PageTexts ==
    { "",
      "Trade bitcoin today.",
      Repeat("bitcoin ", 99),
      Repeat("bitcoin ", 100),
      Repeat(Sentence, 12),
      Repeat("bitcoin ", 60) \o "is a coin. " \o Repeat("ethereum ", 60) }

\* window.location.href: a page of the mock crawl data and another
Locations ==
    { "https://www.giottus.com/trade", "https://www.giottus.com/blog/crypto-guide" }

\* what executeSemanticAIAnalysis returns where seoSpider is not defined:
\* null, which has none of a report's keys
NullResult == [ null |-> TRUE ]

Idle == [ requests |-> <<>> ]

\* a const of the run not yet initialised
Undefined == [ undefined |-> TRUE ]

InitSemantic ==
    /\ LinkgapIdle
    /\ VectorIdle
    /\ SessionIdle
    /\ seoSpider \in BOOLEAN
    /\ location \in Locations
    /\ document \in PageTexts
    /\ semanticPc = "script"
    /\ semanticAnalyzer = Undefined
    /\ healthCheck = FALSE
    /\ pageContent = Undefined
    /\ embedding = Undefined
    /\ pending = <<>>
    /\ collected = <<>>
    /\ results = Undefined
    /\ ollama = Idle
    /\ semanticData = Undefined

\* lines 2250-2258 and 2193-2200: without seoSpider the call returns null;
\* with it the analyzer is built
ExecuteSemanticAIAnalysis ==
    /\ semanticPc = "script"
    /\ IF ~seoSpider
       THEN /\ semanticData' = NullResult
            /\ semanticPc' = "done"
            /\ UNCHANGED semanticAnalyzer
       ELSE /\ semanticAnalyzer' = NewAnalyzer
            /\ semanticPc' = "probe"
            /\ UNCHANGED semanticData
    /\ UNCHANGED <<seoSpider, location, document, healthCheck, pageContent,
                   embedding, pending, collected, results, ollama>>
    /\ UNCHANGED <<linkgapVars, vectorVars, sessionVars>>

\* lines 2230-2241 and 2203-2206: the probe only logs a warning
CheckOllamaConnection ==
    /\ semanticPc = "probe"
    /\ \E response \in Responses :
          /\ healthCheck' = (~response.thrown /\ response.ok)
          /\ ollama' = Asked(ollama, "/api/tags", "", response)
    /\ semanticPc' = "extract"
    /\ UNCHANGED <<seoSpider, location, document, semanticAnalyzer, pageContent,
                   embedding, pending, collected, results, semanticData>>
    /\ UNCHANGED <<linkgapVars, vectorVars, sessionVars>>

\* the value performSemanticAnalysis resolves to is returned by
\* performComprehensiveSemanticAnalysis (line 2212) and handed to
\* seoSpider.data (line 2261)
Resolved(record) ==
    /\ semanticData' = record
    /\ semanticPc' = "done"

\* the extraction going on to the embedding whatever the word count
ExtractPageContentWithoutFloor ==
    /\ semanticPc = "extract"
    /\ pageContent' = cleanTextContent(document)
    /\ semanticPc' = "embedPage"
    /\ UNCHANGED <<seoSpider, location, document, semanticAnalyzer, healthCheck,
                   embedding, pending, collected, results, ollama, semanticData>>
    /\ UNCHANGED <<linkgapVars, vectorVars, sessionVars>>

\* lines 75-80
ExtractPageContent ==
    /\ semanticPc = "extract"
    /\ LET content == cleanTextContent(document)
       IN  /\ pageContent' = content
           /\ IF content.words < semanticAnalyzer.config.MIN_CONTENT_WORDS
              THEN Resolved(generateBasicAnalysis(location, content))
              ELSE semanticPc' = "embedPage" /\ UNCHANGED semanticData
    /\ UNCHANGED <<seoSpider, location, document, semanticAnalyzer, healthCheck,
                   embedding, pending, collected, results, ollama>>
    /\ UNCHANGED <<linkgapVars, vectorVars, sessionVars>>

\* lines 83-84 and 132, with the catch of lines 113-116
EmbedPage ==
    /\ semanticPc = "embedPage"
    /\ \E response \in Responses :
          LET outcome == generateEmbedding(response)
          IN  /\ ollama' = Prompted(ollama, pageContent.cleanText, response)
              /\ IF outcome.threw
                 THEN /\ semanticAnalyzer' = Generated(semanticAnalyzer)
                      /\ Resolved(handleAnalysisError(location, outcome.message))
                      /\ UNCHANGED <<embedding, pending>>
                 ELSE /\ semanticAnalyzer' =
                            [Generated(semanticAnalyzer) EXCEPT !.embeddings =
                                @ \cup {<<location, Vector(outcome.length)>>}]
                      /\ embedding' = Vector(outcome.length)
                      /\ pending' = getCommonPageTypes
                      /\ semanticPc' = "similar"
                      /\ UNCHANGED semanticData
    /\ UNCHANGED <<seoSpider, location, document, healthCheck, pageContent,
                   collected, results>>
    /\ UNCHANGED <<linkgapVars, vectorVars, sessionVars>>

\* lines 135-151, one page of the loop, with the catch of lines 155-158
SimilarPage ==
    /\ semanticPc = "similar"
    /\ pending # <<>>
    /\ LET page == Head(pending)
       IN  IF page.url = location
           THEN /\ pending' = Tail(pending)
                /\ UNCHANGED <<semanticAnalyzer, collected, results, ollama,
                               semanticPc>>
           ELSE \E response \in Responses, similarity \in Similarities :
                  LET outcome == generateEmbedding(response)
                  IN  /\ ollama' = Prompted(ollama, page.content, response)
                      /\ semanticAnalyzer' =
                            IF outcome.threw THEN Generated(semanticAnalyzer)
                            ELSE Compared(Generated(semanticAnalyzer))
                      /\ IF outcome.threw
                            \/ DimensionMismatch(embedding.length, outcome.length)
                         THEN /\ results' = [ semanticSimilarity |-> <<>> ]
                              /\ pending' = <<>>
                              /\ collected' = <<>>
                              /\ semanticPc' = "theme"
                         ELSE /\ collected' =
                                    IF similarity >= semanticAnalyzer.config.SIMILARITY_THRESHOLD
                                    THEN Append(collected,
                                            [ url              |-> page.url,
                                              similarity       |-> similarity,
                                              relationshipType |->
                                                  classifyRelationship(similarity) ])
                                    ELSE collected
                              /\ pending' = Tail(pending)
                              /\ UNCHANGED <<results, semanticPc>>
    /\ UNCHANGED <<seoSpider, location, document, healthCheck, pageContent,
                   embedding, semanticData>>
    /\ UNCHANGED <<linkgapVars, vectorVars, sessionVars>>

\* line 153
FinishSimilarPages ==
    /\ semanticPc = "similar"
    /\ pending = <<>>
    /\ results' = [ semanticSimilarity |->
                      SubSeq(SortBySimilarity(collected), 1, Min(10, Len(collected))) ]
    /\ collected' = <<>>
    /\ semanticPc' = "theme"
    /\ UNCHANGED <<seoSpider, location, document, semanticAnalyzer, healthCheck,
                   pageContent, embedding, pending, ollama, semanticData>>
    /\ UNCHANGED <<linkgapVars, vectorVars, sessionVars>>

\* lines 168-192, then lines 205-207
ThemeConsistency ==
    /\ semanticPc = "theme"
    /\ \E similarity \in Similarities :
          LET centroid == IF semanticAnalyzer.siteCentroid.defined
                          THEN semanticAnalyzer.siteCentroid
                          ELSE Vector(CentroidLength)
              theme == IF DimensionMismatch(embedding.length, centroid.length)
                       THEN [ failed         |-> TRUE,
                              error          |-> "Vector dimension mismatch",
                              themeAlignment |-> 0 ]
                       ELSE [ failed         |-> FALSE,
                              error          |-> "",
                              themeAlignment |-> similarity ]
          IN  /\ semanticAnalyzer' =
                    Compared([semanticAnalyzer EXCEPT !.siteCentroid = centroid])
              /\ results' = [ semanticSimilarity      |-> results.semanticSimilarity,
                              contentThemeConsistency |-> theme ]
    /\ pending' = extractSentences(pageContent.cleanText)
    /\ collected' = <<>>
    /\ semanticPc' = "suggest"
    /\ UNCHANGED <<seoSpider, location, document, healthCheck, pageContent,
                   embedding, ollama, semanticData>>
    /\ UNCHANGED <<linkgapVars, vectorVars, sessionVars>>

\* the report of lines 94-111 once the link suggestions are settled
Completed(suggestions) ==
    Resolved(formatForScreamingFrog(location, pageContent, embedding,
        [ semanticSimilarity         |-> results.semanticSimilarity,
          contentThemeConsistency    |-> results.contentThemeConsistency,
          intelligentLinkSuggestions |-> suggestions ]))

\* lines 210-217, one sentence of the loop; an embedding that fails ends
\* the section in the catch of lines 230-233 and the run goes on to its end
EmbedSentence ==
    /\ semanticPc = "suggest"
    /\ pending # <<>>
    /\ \E response \in Responses :
          LET outcome == generateEmbedding(response)
          IN  /\ ollama' = Prompted(ollama, Head(pending), response)
              /\ semanticAnalyzer' = Generated(semanticAnalyzer)
              /\ IF outcome.threw
                 THEN /\ Completed([ failed           |-> TRUE,
                                     error            |-> outcome.message,
                                     totalSuggestions |-> 0 ])
                      /\ pending' = <<>>
                      /\ collected' = <<>>
                 ELSE /\ collected' = Append(collected,
                                         [ targetUrl |-> "/trade", confidence |-> 85 ])
                      /\ pending' = Tail(pending)
                      /\ UNCHANGED <<semanticData, semanticPc>>
    /\ UNCHANGED <<seoSpider, location, document, healthCheck, pageContent,
                   embedding, results>>
    /\ UNCHANGED <<linkgapVars, vectorVars, sessionVars>>

\* lines 219-228 and 94-111
FinishAnalysis ==
    /\ semanticPc = "suggest"
    /\ pending = <<>>
    /\ Completed([ failed           |-> FALSE,
                   error            |-> "",
                   totalSuggestions |-> Len(collected) ])
    /\ UNCHANGED <<seoSpider, location, document, semanticAnalyzer, healthCheck,
                   pageContent, embedding, pending, collected, results, ollama>>
    /\ UNCHANGED <<linkgapVars, vectorVars, sessionVars>>

NextSemantic ==
    \/ ExecuteSemanticAIAnalysis
    \/ CheckOllamaConnection
    \/ ExtractPageContent
    \/ EmbedPage
    \/ SimilarPage
    \/ FinishSimilarPages
    \/ ThemeConsistency
    \/ EmbedSentence
    \/ FinishAnalysis

SpecSemantic == InitSemantic /\ [][NextSemantic]_vars


----------------------------------------------------------------------------
(* Properties of the semantic analysis run *)

\* the positions at which the run awaits _generateEmbedding
Embedding == {"embedPage", "similar", "suggest"}

\* the requests for an embedding of the given prompt
RequestsFor(service, prompt) ==
    { i \in 1..Len(service.requests) :
        /\ service.requests[i].path = "/api/embeddings"
        /\ service.requests[i].prompt = prompt }

(* C12. An embedding call fails only after retrying: a call that comes     *)
(* back without an embedding, the service having failed or answered with   *)
(* a non-success status, has sent MAX_RETRIES requests.                    *)
EmbedFailsOnlyAfterRetries ==
    [][(/\ semanticPc \in Embedding
        /\ Len(ollama'.requests) > Len(ollama.requests)
        /\ Answered(ollama') = Answered(ollama))
          => Len(ollama'.requests)
                = Len(ollama.requests) + SEMANTIC_CONFIG.MAX_RETRIES]_vars

(* C13. Embeddings are cached by text for the session: once the service    *)
(* has returned an embedding for a text, no later request is sent for the  *)
(* same text.                                                              *)
AtMostOneRequestPerText ==
    semanticPc # "idle" =>
        \A i \in 1..Len(ollama.requests) :
            (ollama.requests[i].path = "/api/embeddings" /\ ollama.requests[i].ok)
                => \A j \in RequestsFor(ollama, ollama.requests[i].prompt) : j <= i

\* the run is over and the analysis went past the usability floor
AnalysedInFull ==
    /\ semanticPc = "done"
    /\ seoSpider
    /\ pageContent.words >= SEMANTIC_CONFIG.MIN_CONTENT_WORDS

\* no request of the run was answered with success
ServiceDown == \A i \in 1..Len(ollama.requests) : ~ollama.requests[i].ok

(* C14. With the embedding service down for the whole run, the analysis of *)
(* a page of sufficient content completes with a report and never ends in  *)
(* an ANALYSIS_ERROR record: the fallback generator stands in for the      *)
(* service.                                                                *)
ServiceDownYieldsReport ==
    (AnalysedInFull /\ ServiceDown)
        => semanticData.Status = "SEMANTIC_ANALYSIS_COMPLETE"

\* the length of the centroid the theme section compares the page with
CentroidOf(analyzer) ==
    IF analyzer.siteCentroid.defined THEN analyzer.siteCentroid.length
    ELSE CentroidLength

\* a step in which _cosineSimilarity is given two vectors of different
\* lengths: the page and the site centroid, or the page and a candidate
\* page whose embedding the service has just returned and on which the
\* loop over the candidates breaks off
ComparesMismatched ==
    \/ /\ semanticPc = "theme"
       /\ embedding.length # CentroidOf(semanticAnalyzer)
    \/ /\ semanticPc = "similar"
       /\ Answered(ollama') > Answered(ollama)
       /\ semanticPc' = "theme"

(* C15. A dimension mismatch is surfaced: a step in which cosine           *)
(* similarity is asked to compare two embeddings of different lengths ends *)
(* the analysis with an explicit error result.                             *)
MismatchSurfaced ==
    [][ComparesMismatched =>
          /\ semanticPc' = "done"
          /\ semanticData'.Status \in {"ANALYSIS_ERROR", "SEMANTIC_ANALYSIS_ERROR"}]_vars

(* C19. On a page with fewer words than MIN_CONTENT_WORDS, or with no      *)
(* content, performSemanticAnalysis returns the basic report with Status   *)
(* INSUFFICIENT_CONTENT, sends no request for an embedding, and leaves the *)
(* analyzer's embeddings, centroid and clusters as they were.              *)
InsufficientContentGivesBasicReport ==
    [][(semanticPc = "extract"
            /\ pageContent'.words < SEMANTIC_CONFIG.MIN_CONTENT_WORDS) =>
          /\ semanticPc' = "done"
          /\ semanticData'.Status = "INSUFFICIENT_CONTENT"
          /\ semanticData'.AnalysisDepth = "BASIC"
          /\ ollama' = ollama
          /\ \A i \in 1..Len(ollama'.requests) :
                ollama'.requests[i].path # "/api/embeddings"
          /\ semanticAnalyzer'.embeddings = semanticAnalyzer.embeddings
          /\ semanticAnalyzer'.siteCentroid = semanticAnalyzer.siteCentroid
          /\ semanticAnalyzer'.clusters = semanticAnalyzer.clusters]_vars

\* a page one word short of the floor, reported as insufficient while the
\* service is up
BasicReportOneWordShort ==
    /\ semanticPc = "done"
    /\ seoSpider
    /\ pageContent.words = SEMANTIC_CONFIG.MIN_CONTENT_WORDS - 1
    /\ healthCheck
    /\ semanticData.Status = "INSUFFICIENT_CONTENT"
    /\ semanticAnalyzer.embeddings = {}

\* the record carries a status, and a recommendation unless the analysis
\* is complete
StructuredRecord(record) ==
    /\ "Status" \in DOMAIN record
    /\ record.Status \in {"SEMANTIC_ANALYSIS_COMPLETE", "INSUFFICIENT_CONTENT",
                          "ANALYSIS_ERROR", "SEMANTIC_ANALYSIS_ERROR"}
    /\ record.Status # "SEMANTIC_ANALYSIS_COMPLETE"
          => "Recommendation" \in DOMAIN record

(* C20, as stated. Every run of the entry point ends by returning a        *)
(* structured record with a status field, and every failure record         *)
(* carries a recommendation, whatever the probe and the service do.        *)
EveryRunReturnsStructuredRecord ==
    semanticPc = "done" => StructuredRecord(semanticData)

(* C20. Where seoSpider is defined, every run of the entry point, whatever *)
(* the probe and the service do at any call, ends with a structured       *)
(* record that carries a status field, and a recommendation if it reports *)
(* a failure: every failed fetch and every error of the analysis is       *)
(* caught on the way.  Where seoSpider is not defined,                     *)
(* executeSemanticAIAnalysis returns null without analysing.               *)
RunInCrawlerReturnsStructuredRecord ==
    semanticPc = "done" =>
        IF seoSpider THEN StructuredRecord(semanticData)
        ELSE semanticData = NullResult

\* the probe and the first embedding request both failed, and the run
\* returned an error record
ErrorRecordWithServiceDown ==
    /\ semanticPc = "done"
    /\ seoSpider
    /\ ~healthCheck
    /\ semanticData.Status = "ANALYSIS_ERROR"
    /\ semanticData.Recommendation = "Check Ollama connection and retry"

\* the embedding requests, in the order they were sent
EmbeddingRequests ==
    { i \in 1..Len(ollama.requests) : ollama.requests[i].path = "/api/embeddings" }

(* C21. Embedding requests are throttled: an embedding request that follows *)
(* another one of the same analysis is sent only after the answer to the    *)
(* one before it and after the rate-limit delay, RATE_LIMIT_DELAY           *)
(* milliseconds, has passed.                                                *)
RequestsThrottled ==
    semanticPc \in Embedding \cup {"done"} =>
        \A i \in EmbeddingRequests, j \in EmbeddingRequests :
            i < j => ollama.requests[j].waited >= SEMANTIC_CONFIG.RATE_LIMIT_DELAY

\* the list is in descending order of similarity
Descending(list) ==
    \A i \in 1..Len(list), j \in 1..Len(list) :
        i < j => list[i].similarity >= list[j].similarity

(* C22. Similar-page discovery returns a list in which every entry is at   *)
(* or above SIMILARITY_THRESHOLD, none is the current page, every          *)
(* candidate found at or above the threshold is present unless the cap of  *)
(* 10 cut it, the entries are in descending order of similarity, and each  *)
(* relationship is DUPLICATE above 0.95, HIGHLY_RELATED above 0.85,        *)
(* RELATED above 0.75 and LOOSELY_RELATED otherwise.                       *)
SimilarPagesListed ==
    [][(semanticPc = "similar" /\ semanticPc' = "theme") =>
        LET list == results'.semanticSimilarity
        IN  /\ Len(list) <= 10
            /\ Descending(list)
            /\ \A i \in 1..Len(list) :
                  /\ list[i].similarity >= SEMANTIC_CONFIG.SIMILARITY_THRESHOLD
                  /\ list[i].url # location
                  /\ list[i].relationshipType =
                        IF list[i].similarity > 95 THEN "DUPLICATE"
                        ELSE IF list[i].similarity > 85 THEN "HIGHLY_RELATED"
                        ELSE IF list[i].similarity > 75 THEN "RELATED"
                        ELSE "LOOSELY_RELATED"
            /\ \A k \in 1..Len(collected) :
                  \/ \E i \in 1..Len(list) : list[i] = collected[k]
                  \/ Len(list) = 10]_vars

----------------------------------------------------------------------------
(* Theme-consistency analyses on one analyzer                              *)
(*                                                                         *)
(* _analyzeThemeConsistency is an async method: a call runs to its first   *)
(* await, and the calls made on one instance before the first has resumed  *)
(* take their turns in any order.                                          *)

\* what Math.random can fill a centroid with, told apart by a name
RandomVectors == {"u", "v"}

\* lines 502-506: a vector of 768 random numbers
Centroid(sample) == [ defined |-> TRUE, length |-> CentroidLength, sample |-> sample ]

NoCentroid == [ defined |-> FALSE, length |-> 0, sample |-> "" ]

\* a call of _analyzeThemeConsistency not yet started, with the length of
\* its embedding
ThemeCall(length) ==
    [ pc |-> "ready", length |-> length, computed |-> NoCentroid,
      against |-> NoCentroid, themeAlignment |-> 0, error |-> "" ]

InitTheme ==
    /\ LinkgapIdle
    /\ VectorIdle
    /\ seoSpider = TRUE
    /\ location = NoValue
    /\ document = NoValue
    /\ semanticPc = "idle"
    /\ semanticAnalyzer = NoValue
    /\ healthCheck = NoValue
    /\ pageContent = NoValue
    /\ embedding = NoValue
    /\ pending = <<>>
    /\ collected = <<>>
    /\ results = NoValue
    /\ ollama = NoValue
    /\ semanticData = NoValue
    /\ themeSession = [ siteCentroid |-> NoCentroid, calculations |-> 0,
                        similarityCalculations |-> 0 ]
    /\ themeCalls \in [ 1..MaxCallers -> { ThemeCall(d) : d \in Dimensions } ]
    /\ clusteringEngine = NoValue
    /\ clusterCall = NoValue
    /\ currentCluster = NoValue

\* lines 177-186 up to the await of line 182, on the analyzer as it is then;
\* a mismatch of dimensions is thrown and caught at lines 188-191
Measured(c, session) ==
    /\ themeSession' = [session EXCEPT !.similarityCalculations = @ + 1]
    /\ IF DimensionMismatch(themeCalls[c].length, session.siteCentroid.length)
       THEN themeCalls' = [themeCalls EXCEPT ![c].pc = "done",
                                              ![c].error = "Vector dimension mismatch"]
       ELSE \E similarity \in Similarities :
               themeCalls' = [themeCalls EXCEPT ![c].pc = "keywords",
                                                ![c].against = session.siteCentroid,
                                                ![c].themeAlignment = similarity]

\* lines 168-174: the call up to its first await
AnalyzeThemeConsistency(c) ==
    /\ themeCalls[c].pc = "ready"
    /\ IF ~themeSession.siteCentroid.defined
       THEN \E sample \in RandomVectors :
               /\ themeSession' = [themeSession EXCEPT !.calculations = @ + 1]
               /\ themeCalls' = [themeCalls EXCEPT ![c].pc = "centroid",
                                                   ![c].computed = Centroid(sample)]
       ELSE Measured(c, themeSession)
    /\ UNCHANGED <<clusteringEngine, clusterCall, currentCluster>>
    /\ UNCHANGED <<linkgapVars, semanticVars, vectorVars>>

\* line 174: the awaited centroid is assigned, and the call goes on
AssignSiteCentroid(c) ==
    /\ themeCalls[c].pc = "centroid"
    /\ Measured(c, [themeSession EXCEPT !.siteCentroid = themeCalls[c].computed])
    /\ UNCHANGED <<clusteringEngine, clusterCall, currentCluster>>
    /\ UNCHANGED <<linkgapVars, semanticVars, vectorVars>>

\* lines 179-186: the call returns its section
ReturnThemeConsistency(c) ==
    /\ themeCalls[c].pc = "keywords"
    /\ themeCalls' = [themeCalls EXCEPT ![c].pc = "done"]
    /\ UNCHANGED <<themeSession, clusteringEngine, clusterCall, currentCluster>>
    /\ UNCHANGED <<linkgapVars, semanticVars, vectorVars>>

NextTheme ==
    \E c \in 1..MaxCallers :
        \/ AnalyzeThemeConsistency(c)
        \/ AssignSiteCentroid(c)
        \/ ReturnThemeConsistency(c)

SpecTheme == InitTheme /\ [][NextTheme]_vars

(* C23. The site centroid is computed once per session and reused: over    *)
(* any sequence or interleaving of theme-consistency analyses on one       *)
(* analyzer, the centroid computation runs at most once and every          *)
(* theme-alignment score is measured against the same centroid.            *)
CentroidComputedOnce ==
    /\ themeSession.calculations <= 1
    /\ \A c \in 1..MaxCallers, d \in 1..MaxCallers :
          (themeCalls[c].against.defined /\ themeCalls[d].against.defined)
              => themeCalls[c].against = themeCalls[d].against

----------------------------------------------------------------------------
(* Cluster assignment                                                      *)

\* lines 1636-1689: the clusters of the engine, with the URLs of their pages
getAllClusters ==
    << [ id            |-> "TRADING_CLUSTER",
         topic         |-> "Cryptocurrency Trading",
         authorityPage |-> "/trade",
         pages         |-> << "/trade", "/trade/btc-inr", "/trade/eth-inr",
                              "/learn/trading", "/fees" >> ],
       [ id            |-> "SECURITY_CLUSTER",
         topic         |-> "Security & Safety",
         authorityPage |-> "/security",
         pages         |-> << "/security", "/learn/security", "/support/security",
                              "/compliance" >> ],
       [ id            |-> "EDUCATION_CLUSTER",
         topic         |-> "Cryptocurrency Education",
         authorityPage |-> "/learn",
         pages         |-> << "/learn", "/learn/bitcoin", "/learn/ethereum",
                              "/learn/trading", "/learn/security", "/blog" >> ] >>

\* line 1607: the similarity a member must exceed
ClusterThreshold == 80

\* lines 1695-1698: Math.random() * 0.3 + 0.7, in hundredths
RandomSimilarities == {75, 80, 85}

\* lines 732-741: the clusters the analyzer finds for an embedding
findSemanticClusters ==
    << [ topic |-> "CRYPTO_TRADING",
         pages |-> << [ url |-> "/trade", similarity |-> 90 ],
                      [ url |-> "/fees",  similarity |-> 80 ] >> ] >>

\* lines 1569-1571: the maps of a new engine
NewEngine == [ clusters |-> {}, clusterMetrics |-> {}, linkingStrategies |-> {} ]

\* lines 1608-1618: the cluster found
Assigned(cluster) ==
    [ id            |-> cluster.id,
      topic         |-> cluster.topic,
      pages         |-> cluster.pages,
      authorityPage |-> [ null |-> FALSE, value |-> cluster.authorityPage ],
      clusterSize   |-> Len(cluster.pages) ]

\* lines 1624-1634: no cluster found
Unclustered(currentUrl) ==
    [ id            |-> "NEW_CLUSTER",
      topic         |-> "UNCLUSTERED",
      pages         |-> << currentUrl >>,
      authorityPage |-> [ null |-> TRUE, value |-> "" ],
      clusterSize   |-> 1 ]

\* lines 243-265, with _findPageCluster of lines 743-747
performSemanticClustering(currentUrl) ==
    LET found == { k \in 1..Len(findSemanticClusters) :
                     \E n \in 1..Len(findSemanticClusters[k].pages) :
                         findSemanticClusters[k].pages[n].url = currentUrl }
        first == CHOOSE k \in found : \A other \in found : k <= other
    IN  IF found = {}
        THEN [ id            |-> "",
               topic         |-> "UNCLUSTERED",
               pages         |-> <<>>,
               authorityPage |-> [ null |-> TRUE, value |-> "" ],
               clusterSize   |-> 0 ]
        ELSE [ id            |-> "",
               topic         |-> findSemanticClusters[first].topic,
               pages         |-> [ n \in 1..Len(findSemanticClusters[first].pages) |->
                                     findSemanticClusters[first].pages[n].url ],
               authorityPage |-> [ null |-> TRUE, value |-> "" ],
               clusterSize   |-> Len(findSemanticClusters[first].pages) ]

\* the URLs a page is assigned for
ClusterUrls ==
    { "/security", "/learn/trading", "/about",
      "https://www.giottus.com/blog/crypto-guide" }

NotAssigned ==
    [ id |-> "", topic |-> "", pages |-> <<>>,
      authorityPage |-> [ null |-> TRUE, value |-> "" ], clusterSize |-> 0 ]

InitCluster ==
    /\ LinkgapIdle
    /\ VectorIdle
    /\ seoSpider = TRUE
    /\ location = NoValue
    /\ document = NoValue
    /\ semanticPc = "idle"
    /\ semanticAnalyzer = NoValue
    /\ healthCheck = NoValue
    /\ pageContent = NoValue
    /\ embedding = NoValue
    /\ pending = <<>>
    /\ collected = <<>>
    /\ results = NoValue
    /\ ollama = NoValue
    /\ semanticData = NoValue
    /\ themeSession = NoValue
    /\ themeCalls = <<>>
    /\ clusteringEngine = NewEngine
    /\ clusterCall \in [ pc : {"called"}, method : {"engine", "analyzer"},
                         currentUrl : ClusterUrls, cluster : {1}, page : {1},
                         drawn : {<<>>} ]
    /\ currentCluster = NotAssigned

\* lines 1601-1603: the call up to the await of _getAllClusters
IdentifyCurrentCluster ==
    /\ clusterCall.pc = "called"
    /\ clusterCall.method = "engine"
    /\ clusterCall' = [clusterCall EXCEPT !.pc = "loop"]
    /\ UNCHANGED <<themeSession, themeCalls, clusteringEngine, currentCluster>>
    /\ UNCHANGED <<linkgapVars, semanticVars, vectorVars>>

\* lines 1605-1634: one page of the loops; the similarity is drawn only
\* where the URL of the member is not the URL of the page
ExamineMember ==
    /\ clusterCall.pc = "loop"
    /\ LET cluster == getAllClusters[clusterCall.cluster]
           member  == cluster.pages[clusterCall.page]
           last    == /\ clusterCall.cluster = Len(getAllClusters)
                      /\ clusterCall.page = Len(cluster.pages)
           onward(call) ==
               IF last THEN [call EXCEPT !.pc = "returned"]
               ELSE IF clusterCall.page = Len(cluster.pages)
               THEN [call EXCEPT !.cluster = @ + 1, !.page = 1]
               ELSE [call EXCEPT !.page = @ + 1]
       IN  IF member = clusterCall.currentUrl
           THEN /\ currentCluster' = Assigned(cluster)
                /\ clusterCall' = [clusterCall EXCEPT !.pc = "returned"]
           ELSE \E similarity \in RandomSimilarities :
                  LET call == [clusterCall EXCEPT !.drawn =
                                  Append(@, [ cluster    |-> clusterCall.cluster,
                                              similarity |-> similarity ])]
                  IN  IF similarity > ClusterThreshold
                      THEN /\ currentCluster' = Assigned(cluster)
                           /\ clusterCall' = [call EXCEPT !.pc = "returned"]
                      ELSE /\ clusterCall' = onward(call)
                           /\ currentCluster' =
                                 IF last THEN Unclustered(clusterCall.currentUrl)
                                 ELSE currentCluster
    /\ UNCHANGED <<themeSession, themeCalls, clusteringEngine>>
    /\ UNCHANGED <<linkgapVars, semanticVars, vectorVars>>

\* lines 243-265
PerformSemanticClustering ==
    /\ clusterCall.pc = "called"
    /\ clusterCall.method = "analyzer"
    /\ currentCluster' = performSemanticClustering(clusterCall.currentUrl)
    /\ clusterCall' = [clusterCall EXCEPT !.pc = "returned"]
    /\ UNCHANGED <<themeSession, themeCalls, clusteringEngine>>
    /\ UNCHANGED <<linkgapVars, semanticVars, vectorVars>>

NextCluster == IdentifyCurrentCluster \/ ExamineMember \/ PerformSemanticClustering

SpecCluster == InitCluster /\ [][NextCluster]_vars

\* the clusters of the call with a member whose similarity to the page
\* was found above the threshold
ClustersAbove ==
    IF clusterCall.method = "engine"
    THEN { getAllClusters[clusterCall.drawn[n].cluster].topic :
             n \in { k \in 1..Len(clusterCall.drawn) :
                       clusterCall.drawn[k].similarity > ClusterThreshold } }
    ELSE { findSemanticClusters[k].topic :
             k \in { c \in 1..Len(findSemanticClusters) :
                       \E n \in 1..Len(findSemanticClusters[c].pages) :
                           findSemanticClusters[c].pages[n].similarity
                               > ClusterThreshold } }

(* C24. A page is assigned to the first cluster that has a member whose    *)
(* similarity to the page exceeds the cluster threshold; when no cluster   *)
(* has such a member the page is reported UNCLUSTERED, as a singleton      *)
(* with no authority page; and the assignment leaves the clusters stored   *)
(* in the engine as they were.                                             *)
AssignedToFirstSimilarCluster ==
    clusterCall.pc = "returned" =>
        /\ clusteringEngine = NewEngine
        /\ IF ClustersAbove = {}
           THEN /\ currentCluster.topic = "UNCLUSTERED"
                /\ currentCluster.clusterSize = 1
                /\ currentCluster.pages = << clusterCall.currentUrl >>
                /\ currentCluster.authorityPage.null
           ELSE currentCluster.topic \in ClustersAbove

----------------------------------------------------------------------------
(* The embedding script (src/scremingfrog/vector.js)                       *)
(*                                                                         *)
(* The regular expressions of the script are matched on the strings        *)
(* themselves.  The strings of the model hold no line break and no         *)
(* whitespace but the space, so \s is the space and .*$ runs to the end.   *)

Quote == "\""

\* the position after an optional character at position i
Optional(str, i, ch) ==
    IF i \in 1..Len(str) /\ CharAt(str, i) = ch THEN i + 1 ELSE i

\* the position after a literal at position i, or 0 if it is not there
Literal(str, i, part) ==
    IF i # 0 /\ i + Len(part) - 1 <= Len(str)
             /\ SubSeq(str, i, i + Len(part) - 1) = part
    THEN i + Len(part) ELSE 0

\* the position after the spaces that start at position i
Spaces(str, i) ==
    IF i = 0 THEN 0
    ELSE LET others == { j \in i..Len(str) : CharAt(str, j) # " " }
         IN  IF others = {} THEN Len(str) + 1
             ELSE CHOOSE j \in others : \A k \in others : j <= k

\* the position after \[?\{?"embedding":\s*" at position i, or 0
Wrapper(str, i) ==
    IF i = 0 THEN 0
    ELSE Literal(str,
             Spaces(str,
                 Literal(str, Optional(str, Optional(str, i, "["), "{"),
                         "\"embedding\":")),
             Quote)

\* line 9: .replace(/^\[?\{?"embedding":\s*"\[?\{?"embedding":\s*"/g, '')
StripNestedPrefix(str) ==
    LET after == Wrapper(str, Wrapper(str, 1))
    IN  IF after = 0 THEN str ELSE SubSeq(str, after, Len(str))

\* line 10: .replace(/",?"method".*$/g, '')
StripMethodSuffix(str) ==
    LET starts == { i \in 1..Len(str) :
                      \/ Literal(str, i, "\"\"method\"") # 0
                      \/ Literal(str, i, "\",\"method\"") # 0 }
    IN  IF starts = {} THEN str
        ELSE SubSeq(str, 1, (CHOOSE i \in starts : \A j \in starts : i <= j) - 1)

\* the string without both of its ends, whatever they are
StripEnds(str, first, last) == SubSeq(str, 2, Len(str) - 1)

\* /^c|d$/g replaced by '': the leading c goes, and the trailing d of what
\* is left
StripOuter(str, first, last) ==
    LET tail == IF str # "" /\ CharAt(str, 1) = first
                THEN SubSeq(str, 2, Len(str)) ELSE str
    IN  IF tail # "" /\ CharAt(tail, Len(tail)) = last
        THEN SubSeq(tail, 1, Len(tail) - 1) ELSE tail

\* lines 4-18, for a string
cleanupMalformedData(str) ==
    trim(StripOuter(StripOuter(StripMethodSuffix(StripNestedPrefix(str)),
                               "[", "]"),
                    Quote, Quote))

Digits == {"0", "1", "2", "3", "4", "5", "6", "7", "8", "9"}

\* -?\d+(\.\d+)? on the whole of a string
SignedDecimal(str) ==
    LET body == IF StartsWith(str, "-") THEN SubSeq(str, 2, Len(str)) ELSE str
        dots == { i \in 1..Len(body) : CharAt(body, i) = "." }
    IN  /\ body # ""
        /\ \A i \in 1..Len(body) : CharAt(body, i) \in Digits \cup {"."}
        /\ Cardinality(dots) <= 1
        /\ \A d \in dots : d > 1 /\ d < Len(body)

\* line 259: /^-?\d+(\.\d+)?(,-?\d+(\.\d+)?)*$/.test(str)
Grammar(str) ==
    LET commas == { i \in 1..Len(str) : CharAt(str, i) = "," }
        cuts   == {0} \cup commas \cup {Len(str) + 1}
    IN  \A a \in cuts \ {Len(str) + 1} :
            LET b == CHOOSE c \in cuts : c > a /\ \A d \in cuts : d > a => c <= d
            IN  SignedDecimal(SubSeq(str, a + 1, b - 1))

----------------------------------------------------------------------------
(* Calls of cleanupMalformedData on strings of numbers, bare and wrapped *)

\* the numbers of an embedding string
Components == {"0.1", "-0.25", "3", "-12", "0.000001"}

\* the strings of n numbers separated by commas
RECURSIVE Joined(_)
Joined(n) ==
    IF n = 1 THEN Components
    ELSE { s \o "," \o c : s \in Joined(n - 1), c \in Components }

WellFormed == UNION { Joined(n) : n \in 1..MaxComponents }

\* the wrapper of a nested serialization: the prefix twice, with or without
\* the bracket, the brace and a space
NestedPrefixes ==
    { "[{\"embedding\":\"[{\"embedding\":\"",
      "{\"embedding\": \"{\"embedding\": \"",
      "\"embedding\":\"\"embedding\":\"" }

\* the metadata that follows the numbers
MethodSuffixes ==
    { "\",\"method\":\"x\"}",
      "\",\"method\":\"fallback\",\"contentLength\":812}]" }

Wrapped ==
    { p \o s \o x : p \in NestedPrefixes, s \in WellFormed, x \in MethodSuffixes }

InitRepair ==
    /\ LinkgapIdle
    /\ SemanticIdle
    /\ rawData \in WellFormed \cup Wrapped
    /\ cleaned = NoValue
    /\ fallbackCall = NoValue
    /\ simpleEmbedding = <<>>
    /\ currentEmbedding = NoValue
    /\ blogContent = NoValue
    /\ apiResponse = NoValue
    /\ vectorPc = "repair"
    /\ vectorData = NoValue

\* lines 4-18
CleanupMalformedData ==
    /\ vectorPc = "repair"
    /\ cleaned' = cleanupMalformedData(rawData)
    /\ vectorPc' = "repaired"
    /\ UNCHANGED <<rawData, fallbackCall, simpleEmbedding, currentEmbedding,
                   blogContent, apiResponse, vectorData>>
    /\ UNCHANGED <<linkgapVars, semanticVars, sessionVars>>

SpecRepair == InitRepair /\ [][CleanupMalformedData]_vars

(* C17. Repair round trip: a well-formed string of signed decimals         *)
(* separated by commas is returned as it is, and such a string wrapped in  *)
(* the nested serialization, the "embedding": prefix twice in front and    *)
(* the "method" metadata behind, is returned without its wrapping.         *)
RepairRoundTrip ==
    vectorPc = "repaired" =>
        /\ Grammar(rawData) => cleaned = rawData
        /\ \A p \in NestedPrefixes, x \in MethodSuffixes :
              (/\ StartsWith(rawData, p)
               /\ Len(rawData) > Len(p) + Len(x)
               /\ SubSeq(rawData, Len(rawData) - Len(x) + 1, Len(rawData)) = x)
                  => /\ Grammar(cleaned)
                     /\ rawData = p \o cleaned \o x

\* the sample of the nested serialization, repaired
SampleRepaired ==
    /\ vectorPc = "repaired"
    /\ rawData = "[{\"embedding\":\"[{\"embedding\":\"0.1,-0.25,3\",\"method\":\"x\"}"
    /\ cleaned = "0.1,-0.25,3"

----------------------------------------------------------------------------
(* The fallback generator of the embedding script                          *)
(*                                                                         *)
(* A number of the rolling hash is kept as <<high, low>>, standing for     *)
(* high * 65536 + low with low in 0..65535, so that the value before the   *)
(* conversion to 32 bits, which can leave the 32-bit range, can be held.   *)
(* A component of the vector is (Math.sin(hash / 1000000) * 0.5)           *)
(* .toFixed(6): a function of the hash alone, kept as the hash it is       *)
(* computed from.                                                          *)

Half == 65536

Zero == <<0, 0>>

\* the number as an integer, for a number of the signed 32-bit range
ValueOf(n) == n[1] * Half + n[2]

InInt32(n) == n[1] \in -(Half \div 2)..(Half \div 2 - 1)

\* ToInt32: the number modulo 2^32, in the signed range
ToInt32(n) == <<((n[1] + Half \div 2) % Half) - Half \div 2, n[2]>>

\* hash << 5
ShiftLeft5(n) ==
    ToInt32(<<ToInt32(n)[1] * 32 + (n[2] * 32) \div Half, (n[2] * 32) % Half>>)

Minus(a, b) ==
    IF a[2] >= b[2] THEN <<a[1] - b[1], a[2] - b[2]>>
    ELSE <<a[1] - b[1] - 1, a[2] - b[2] + Half>>

PlusChar(a, char) ==
    <<a[1] + (a[2] + char) \div Half, (a[2] + char) % Half>>

\* line 35: ((hash << 5) - hash) + char
Rolled(hash, char) == PlusChar(Minus(ShiftLeft5(hash), hash), char)

\* the characters of the model, in runs of consecutive codes
CodeRuns ==
    << [ first |-> 32, chars |-> " " ],
       [ first |-> 44, chars |-> ",-." ],
       [ first |-> 48, chars |-> "0123456789" ],
       [ first |-> 65, chars |-> "ABCDEFGHIJKLMNOPQRSTUVWXYZ" ],
       [ first |-> 97, chars |-> "abcdefghijklmnopqrstuvwxyz" ] >>

\* the code of each character of the model
CharCodes ==
    [ ch \in UNION { { CharAt(CodeRuns[r].chars, k) : k \in 1..Len(CodeRuns[r].chars) } :
                        r \in 1..Len(CodeRuns) } |->
        LET run == CHOOSE r \in 1..Len(CodeRuns) :
                       \E k \in 1..Len(CodeRuns[r].chars) :
                           CharAt(CodeRuns[r].chars, k) = ch
            at == CHOOSE k \in 1..Len(CodeRuns[run].chars) :
                       CharAt(CodeRuns[run].chars, k) = ch
        IN  CodeRuns[run].first + at - 1 ]

\* String.prototype.charCodeAt
charCodeAt(str, j) == CharCodes[CharAt(str, j)]

\* lines 33-37: the loop over the characters of the seed from position j,
\* with line 36, hash & hash, after each
RECURSIVE HashFrom(_, _, _)
HashFrom(hash, seed, j) ==
    IF j > Len(seed) THEN hash
    ELSE CHOOSE last \in { HashFrom(next, seed, j + 1) :
                              next \in { ToInt32(Rolled(hash, charCodeAt(seed, j))) } } :
             TRUE

\* Number.prototype.toString of a natural number
RECURSIVE toString(_)
toString(n) == IF n < 10 THEN Digit(n) ELSE toString(n \div 10) \o Digit(n % 10)

\* line 40, as the hash the component is computed from
SineComponent(hash) == [ sineOf |-> ValueOf(hash) ]

\* the vector computed from the text as it is given
GenerateSimpleEmbeddingOfRawText(str, dimensions) ==
    [ i \in 1..dimensions |->
        SineComponent(HashFrom(Zero, str \o toString(i - 1), 1)) ]

\* lines 21-44
generateSimpleEmbedding(str, dimensions) ==
    LET normalized == trim(toLowerCase(str))
    IN  [ i \in 1..dimensions |->
            SineComponent(HashFrom(Zero, normalized \o toString(i - 1), 1)) ]

----------------------------------------------------------------------------
(* Calls of generateSimpleEmbedding *)

Texts ==
    { "", "eth", " ETH", "Bitcoin Trading Guide", "bitcoin trading guide",
      "  BITCOIN trading guide ", "Ethereum staking rewards, explained.",
      "ethereum staking rewards, explained. " }

InitFallback ==
    /\ LinkgapIdle
    /\ SemanticIdle
    /\ rawData = NoValue
    /\ cleaned = NoValue
    /\ fallbackCall \in [ text : Texts, dimensions : 1..MaxDimensions ]
    /\ simpleEmbedding = <<>>
    /\ currentEmbedding = NoValue
    /\ blogContent = NoValue
    /\ apiResponse = NoValue
    /\ vectorPc = "fallback"
    /\ vectorData = NoValue

\* lines 21-44, called once more with the same arguments
GenerateSimpleEmbedding ==
    /\ vectorPc = "fallback"
    /\ Len(simpleEmbedding) < 2
    /\ simpleEmbedding' =
          Append(simpleEmbedding,
                 generateSimpleEmbedding(fallbackCall.text, fallbackCall.dimensions))
    /\ UNCHANGED <<rawData, cleaned, fallbackCall, currentEmbedding, blogContent,
                   apiResponse, vectorPc, vectorData>>
    /\ UNCHANGED <<linkgapVars, semanticVars, sessionVars>>

SpecFallback == InitFallback /\ [][GenerateSimpleEmbedding]_vars

\* the seed of component i of a text
SeedOf(str, i) == trim(toLowerCase(str)) \o toString(i - 1)

----------------------------------------------------------------------------
(* The embedding script: an existing value is repaired or discarded *)

\* a value that may be missing: window.currentEmbeddingValue, or what
\* cleanupExistingData returns
Value(str) == [ defined |-> TRUE, value |-> str ]

Missing == [ defined |-> FALSE, value |-> "" ]

\* the truth of a value in a condition
Truthy(v) == v.defined /\ v.value # ""

FailedFetch == "TypeError: Failed to fetch"

EmbeddingKey == "{\"embedding\":"

\* the repaired string is taken whatever it is
CleanupExistingDataUnvalidated(embeddingValue) ==
    IF ~embeddingValue.defined THEN Missing
    ELSE IF Includes(embeddingValue.value, EmbeddingKey)
    THEN Value(cleanupMalformedData(embeddingValue.value))
    ELSE embeddingValue

\* lines 247-277
cleanupExistingData(embeddingValue) ==
    IF ~embeddingValue.defined THEN Missing
    ELSE IF Includes(embeddingValue.value, EmbeddingKey)
    THEN LET cleanValue == cleanupMalformedData(embeddingValue.value)
         IN  IF cleanValue # "" /\ Grammar(cleanValue) THEN Value(cleanValue)
             ELSE Missing
    ELSE embeddingValue

\* line 178: the least length of content an embedding is made of
MinContentLength == 50

\* Array.prototype.join(',') of the numbers of a response
RECURSIVE join(_)
join(numbers) ==
    IF Len(numbers) = 0 THEN ""
    ELSE IF Len(numbers) = 1 THEN numbers[1]
    ELSE numbers[1] \o "," \o join(Tail(numbers))

\* what the script hands to the crawler: seoSpider.data or seoSpider.error
Data(from, joined) == [ call |-> "data", from |-> from, value |-> joined ]

Error(message) == [ call |-> "error", from |-> "content", value |-> message ]

\* the answers of the embedding service to the one request of the script
ApiResponses ==
    { [ thrown |-> TRUE,  ok |-> FALSE, status |-> 0,   embedding |-> Missing ],
      [ thrown |-> FALSE, ok |-> FALSE, status |-> 500, embedding |-> Missing ],
      [ thrown |-> FALSE, ok |-> TRUE,  status |-> 200, embedding |-> Missing ],
      [ thrown |-> FALSE, ok |-> TRUE,  status |-> 200,
        embedding |-> Value(join(<<"0.5", "-0.125">>)) ],
      [ thrown |-> FALSE, ok |-> TRUE,  status |-> 200,
        embedding |-> Value(join(<<"7">>)) ] }

----------------------------------------------------------------------------
(* Runs of the embedding script *)

\* the numbers between the wrapper of a stored value: well-formed and not
StoredNumbers == { "3", "0.1,-0.25,3" }

CorruptNumbers == { "", "0.1,NaN" }

ExistingValues ==
    { Missing, Value(""), Value(FailedFetch),
      Value("Error: " \o FailedFetch \o " at " \o EmbeddingKey),
      Value("0.1,-0.25,3"), Value("undefined"),
      Value("[{\"embedding\":\"0.1,-0.25\",\"method\":\"x\"}]") }
    \cup { Value(p \o n \o x) :
             p \in NestedPrefixes, n \in StoredNumbers, x \in MethodSuffixes }
    \cup { Value(p \o n \o x) :
             p \in NestedPrefixes, n \in CorruptNumbers, x \in MethodSuffixes }

PostText == "bitcoin trading guide for beginners in india, 2024"

\* what extractBlogContent finds on the page: nothing, one character short
\* of the least length, and the least length
Contents == { "", SubSeq(PostText, 1, MinContentLength - 1), PostText }

InitVector ==
    /\ LinkgapIdle
    /\ SemanticIdle
    /\ rawData = NoValue
    /\ cleaned = Missing
    /\ fallbackCall = NoValue
    /\ simpleEmbedding = <<>>
    /\ currentEmbedding \in ExistingValues
    /\ blogContent \in Contents
    /\ apiResponse = NoValue
    /\ vectorPc = "script"
    /\ vectorData = NoValue

\* lines 168-199: generateEmbeddingWithFallback up to the answer of the service
Regenerate ==
    IF Len(blogContent) < MinContentLength
    THEN /\ vectorData' = Error("Embedding generation failed: Insufficient content")
         /\ vectorPc' = "done"
    ELSE /\ vectorData' = vectorData
         /\ vectorPc' = "fetch"

\* lines 279-295, with the call of generateEmbeddingWithFallback up to its await
Dispatch ==
    /\ vectorPc = "script"
    /\ IF Truthy(currentEmbedding) /\ Includes(currentEmbedding.value, FailedFetch)
       THEN /\ Regenerate
            /\ cleaned' = cleaned
       ELSE IF Truthy(currentEmbedding)
                 /\ Includes(currentEmbedding.value, EmbeddingKey)
       THEN /\ cleaned' = cleanupExistingData(currentEmbedding)
            /\ IF Truthy(cleaned')
               THEN /\ vectorData' = Data("existing", cleaned'.value)
                    /\ vectorPc' = "done"
               ELSE Regenerate
       ELSE /\ Regenerate
            /\ cleaned' = cleaned
    /\ UNCHANGED <<rawData, fallbackCall, simpleEmbedding, currentEmbedding,
                   blogContent, apiResponse>>
    /\ UNCHANGED <<linkgapVars, semanticVars, sessionVars>>

\* the request failed, the service refused it, or its answer has no
\* embedding to join
ServiceFailed(response) ==
    \/ response.thrown
    \/ ~response.ok
    \/ ~response.embedding.defined

\* the arguments of the call of line 217
FallbackOf(content) == [ text |-> content, dimensions |-> 768 ]

\* a handler that reports an error where the service gives no embedding
HandedOnWithoutFallback(response, simple) ==
    IF ~ServiceFailed(response)
    THEN [ data  |-> Data("service", response.embedding.value),
           calls |-> <<>> ]
    ELSE [ data  |-> Error("Embedding generation failed: " \o "API Error"),
           calls |-> <<>> ]

\* lines 201-236: what the script hands on once the request is settled,
\* and what its calls of generateSimpleEmbedding returned; simple is what
\* the generator makes of the content
HandedOn(response, simple) ==
    IF ~ServiceFailed(response)
    THEN [ data  |-> Data("service", response.embedding.value),
           calls |-> <<>> ]
    ELSE [ data  |-> Data("fallback", simple),
           calls |-> <<simple>> ]

\* lines 201-236: the service answers, or the request fails
GenerateEmbeddingWithFallback ==
    /\ vectorPc = "fetch"
    /\ \E simple \in { generateSimpleEmbedding(blogContent,
                                                FallbackOf(blogContent).dimensions) } :
          \E response \in ApiResponses :
              \E handed \in { HandedOn(response, simple) } :
                  /\ apiResponse' = response
                  /\ vectorData' = handed.data
                  /\ simpleEmbedding' = simpleEmbedding \o handed.calls
                  /\ fallbackCall' =
                        IF handed.calls = <<>> THEN fallbackCall
                        ELSE FallbackOf(blogContent)
    /\ vectorPc' = "done"
    /\ UNCHANGED <<rawData, cleaned, currentEmbedding, blogContent>>
    /\ UNCHANGED <<linkgapVars, semanticVars, sessionVars>>

NextVector == Dispatch \/ GenerateEmbeddingWithFallback

SpecVector == InitVector /\ [][NextVector]_vars

\* the script handed the value it was given, repaired, to the crawler
EmitsExisting == vectorPc = "done" /\ vectorData.from = "existing"

\* the script made an embedding anew, from the service or the generator
Regenerated == vectorPc = "done" /\ vectorData.from \in {"service", "fallback"}

\* the script reported that the page has too little content
ReportedShort == vectorPc = "done" /\ vectorData.from = "content"

\* the value given is one the script repairs: truthy, no record of a failed
\* fetch, a serialization, and its repair is in the grammar
Repairable ==
    /\ Truthy(currentEmbedding)
    /\ ~Includes(currentEmbedding.value, FailedFetch)
    /\ Includes(currentEmbedding.value, EmbeddingKey)
    /\ Grammar(cleanupMalformedData(currentEmbedding.value))

(* C18 as stated. The script emits the existing value only when it has     *)
(* been repaired and is in the grammar, and in every other case an         *)
(* embedding is regenerated.                                               *)
CorruptDiscardedAndRegenerated ==
    vectorPc = "done" =>
        IF Repairable
        THEN /\ EmitsExisting
             /\ vectorData.value = cleanupMalformedData(currentEmbedding.value)
             /\ Grammar(vectorData.value)
        ELSE Regenerated

(* C18. The script emits the existing value only when it has been          *)
(* repaired and is in the grammar; in every other case the value is        *)
(* discarded, and an embedding is regenerated where the page has at least  *)
(* 50 characters of content and an error is reported where it has fewer.   *)
CorruptNeverPassedOn ==
    vectorPc = "done" =>
        IF Repairable
        THEN /\ EmitsExisting
             /\ vectorData.value = cleanupMalformedData(currentEmbedding.value)
             /\ Grammar(vectorData.value)
        ELSE IF Len(blogContent) >= MinContentLength THEN Regenerated
        ELSE ReportedShort

\* a stored value whose repair is not in the grammar, replaced by the
\* vector of the fallback generator
CorruptReplacedByFallback ==
    /\ vectorPc = "done"
    /\ currentEmbedding =
          Value("[{\"embedding\":\"[{\"embedding\":\"0.1,NaN\",\"method\":\"x\"}")
    /\ vectorData.from = "fallback"
    /\ Len(vectorData.value) = 768

\* the vector the fallback generator makes of each content long enough
FallbackEmbeddings ==
    [ content \in { c \in Contents : Len(c) >= MinContentLength } |->
        generateSimpleEmbedding(content, 768) ]

\* generateEmbeddingWithFallback has run to its end
FunctionRan == vectorPc = "done" /\ vectorData.from # "existing"

(* C28. Every run of generateEmbeddingWithFallback ends in one outcome,    *)
(* data or error.  With at least 50 characters of content, a request that  *)
(* fails, is refused, or is answered without an embedding leads to one     *)
(* call of the fallback generator and to data carrying its embedding; the  *)
(* error outcome occurs only with fewer than 50 characters of content.     *)
FallbackOnServiceFailure ==
    FunctionRan =>
        /\ vectorData.call \in {"data", "error"}
        /\ vectorData.call = "error" <=> Len(blogContent) < MinContentLength
        /\ vectorData.call = "error" =>
              /\ apiResponse = NoValue
              /\ simpleEmbedding = <<>>
        /\ vectorData.call = "data" =>
              IF ServiceFailed(apiResponse)
              THEN /\ Len(simpleEmbedding) = 1
                   /\ fallbackCall.text = blogContent
                   /\ fallbackCall.dimensions = 768
                   /\ simpleEmbedding[1] = FallbackEmbeddings[blogContent]
                   /\ vectorData = Data("fallback", simpleEmbedding[1])
              ELSE /\ simpleEmbedding = <<>>
                   /\ vectorData = Data("service", apiResponse.embedding.value)

\* the service answered 200 without an embedding, and the script handed
\* on the vector of the one call of the fallback generator
AnswerWithoutEmbeddingReplaced ==
    /\ FunctionRan
    /\ vectorData.call = "data"
    /\ apiResponse.ok
    /\ ~apiResponse.embedding.defined
    /\ Len(simpleEmbedding) = 1
    /\ vectorData.value = simpleEmbedding[1]

====
